---- MODULE Spec2Model ----
(***************************************************************************)
(* Verification model of the IoT dashboard's data-processing pipeline      *)
(* (utils/dataProcessing.ts) and of the server code it exchanges rows      *)
(* with (server.js).                                                       *)
(*                                                                         *)
(* JavaScript values are modelled as tagged records so that the language's *)
(* coercions (||, +, >, Number(), Math.max) can be computed as the         *)
(* interpreter computes them.  Numbers are exact rationals n/d, plus NaN   *)
(* and Number.MAX_VALUE; strings are TLA+ strings.                         *)
(***************************************************************************)
EXTENDS Integers, Sequences, FiniteSets, TLC

VARIABLES pc, args, ret, error, callerData, page, server

vars == <<pc, args, ret, error, callerData, page, server>>

-----------------------------------------------------------------------------
(* Bounds of the model.                                                    *)

MaxRows == 3        \* data rows of a CSV text
MaxRecords == 3     \* records handed to calculateAggregates
MaxValues == 4      \* records handed to identifyOutliers
MaxData == 3        \* records handed to correctOutliers
MaxIndices == 2     \* indices handed to correctOutliers
MaxFilter == 3      \* records handed to filterByTimeRange

-----------------------------------------------------------------------------
(* Generic helpers.                                                        *)

SeqsUpTo(S, n) == UNION {[1..k -> S] : k \in 0..n}

Range(s) == {s[i] : i \in 1..Len(s)}

\* the only element of a set of one element; The({e(x) : x \in {v}}) is e
\* with v computed once
The(set) == CHOOSE x \in set : TRUE

RECURSIVE GCD(_, _)
GCD(a, b) == IF b = 0 THEN a ELSE GCD(b, a % b)

Abs(x) == IF x < 0 THEN -x ELSE x

-----------------------------------------------------------------------------
(* JavaScript values.                                                      *)

undefined == [t |-> "undefined"]
null == [t |-> "null"]
Bool(b) == [t |-> "boolean", b |-> b]
Str(s) == [t |-> "string", s |-> s]
NaN == [t |-> "number", k |-> "NaN", n |-> 0, d |-> 1]
MAX_VALUE == [t |-> "number", k |-> "MAX_VALUE", n |-> 0, d |-> 1]

\* the finite number n/d, in lowest terms with a positive denominator
Num(n, d) ==
  LET g == GCD(Abs(n), Abs(d))
      s == IF d < 0 THEN -1 ELSE 1
  IN [t |-> "number", k |-> "finite", n |-> (s * n) \div g, d |-> (s * d) \div g]

IntNum(n) == Num(n, 1)

IsFinite(v) == v.t = "number" /\ v.k = "finite"
IsNaN(v) == v.t = "number" /\ v.k = "NaN"

\* typeof v
typeof(v) == IF v.t = "null" THEN "object" ELSE v.t

-----------------------------------------------------------------------------
(* Strings: characters, digits, trimming, splitting.                       *)

Char(s, i) == SubSeq(s, i, i)

Digits == <<"0", "1", "2", "3", "4", "5", "6", "7", "8", "9">>

IsDigit(c) == \E i \in 1..10 : Digits[i] = c

DigitVal(c) == (CHOOSE i \in 1..10 : Digits[i] = c) - 1

AllDigits(s) == \A i \in 1..Len(s) : IsDigit(Char(s, i))

RECURSIVE ParseDigits(_)
ParseDigits(s) ==
  IF Len(s) = 0 THEN 0
  ELSE 10 * ParseDigits(SubSeq(s, 1, Len(s) - 1)) + DigitVal(Char(s, Len(s)))

RECURSIVE Pow10(_)
Pow10(k) == IF k = 0 THEN 1 ELSE 10 * Pow10(k - 1)

RECURSIVE TrimLeft(_)
TrimLeft(s) == IF Len(s) > 0 /\ Char(s, 1) = " " THEN TrimLeft(Tail(s)) ELSE s

RECURSIVE TrimRight(_)
TrimRight(s) ==
  IF Len(s) > 0 /\ Char(s, Len(s)) = " " THEN TrimRight(SubSeq(s, 1, Len(s) - 1)) ELSE s

Trim(s) == TrimRight(TrimLeft(s))

\* position of the first occurrence of the character c in s, 0 when absent
IndexOf(s, c) ==
  IF \E i \in 1..Len(s) : Char(s, i) = c
  THEN CHOOSE i \in 1..Len(s) : Char(s, i) = c /\ \A j \in 1..(i - 1) : Char(s, j) # c
  ELSE 0

\* String.prototype.split with a one-character separator
RECURSIVE Split(_, _)
Split(s, c) ==
  LET i == IndexOf(s, c)
  IN IF i = 0 THEN <<s>>
     ELSE <<SubSeq(s, 1, i - 1)>> \o Split(SubSeq(s, i + 1, Len(s)), c)

\* Array.prototype.join
RECURSIVE Join(_, _)
Join(parts, c) ==
  IF Len(parts) = 0 THEN ""
  ELSE IF Len(parts) = 1 THEN parts[1]
  ELSE parts[1] \o c \o Join(Tail(parts), c)

\* Array.prototype.reverse
Reverse(s) == [i \in 1..Len(s) |-> s[Len(s) + 1 - i]]

\* String.prototype.replace(/c/g, r)
RECURSIVE ReplaceAll(_, _, _)
ReplaceAll(s, c, r) ==
  IF Len(s) = 0 THEN ""
  ELSE (IF Char(s, 1) = c THEN r ELSE Char(s, 1)) \o ReplaceAll(Tail(s), c, r)

\* String.prototype.startsWith
StartsWith(s, p) == Len(p) <= Len(s) /\ SubSeq(s, 1, Len(p)) = p

-----------------------------------------------------------------------------
(* Numeric literals: the decimal forms  -?digits  and  -?digits.digits     *)
(* (exponents, hex literals and "Infinity" do not occur in the inputs).    *)

IsUnsignedDecimal(s) ==
  LET p == IndexOf(s, ".")
  IN IF p = 0 THEN Len(s) > 0 /\ AllDigits(s)
     ELSE /\ AllDigits(SubSeq(s, 1, p - 1))
          /\ AllDigits(SubSeq(s, p + 1, Len(s)))
          /\ Len(s) > 1

UnsignedDecimalValue(s) ==
  LET p == IndexOf(s, ".")
  IN IF p = 0 THEN IntNum(ParseDigits(s))
     ELSE LET frac == SubSeq(s, p + 1, Len(s))
          IN Num(ParseDigits(SubSeq(s, 1, p - 1)) * Pow10(Len(frac)) + ParseDigits(frac),
                 Pow10(Len(frac)))

Neg(v) == IF IsFinite(v) THEN Num(-v.n, v.d) ELSE v

\* StringToNumber of the language: surrounding white space is ignored, the
\* empty string is 0, a decimal literal is its value, anything else is NaN
StringToNumber(s) ==
  LET u == Trim(s)
  IN IF u = "" THEN IntNum(0)
     ELSE IF IsUnsignedDecimal(u) THEN UnsignedDecimalValue(u)
     ELSE IF Char(u, 1) \in {"-", "+"} /\ IsUnsignedDecimal(Tail(u))
          THEN (IF Char(u, 1) = "-" THEN Neg(UnsignedDecimalValue(Tail(u)))
                ELSE UnsignedDecimalValue(Tail(u)))
     ELSE NaN

\* Number(v) / ToNumber
ToNumber(v) ==
  CASE v.t = "number" -> v
    [] v.t = "undefined" -> NaN
    [] v.t = "null" -> IntNum(0)
    [] v.t = "boolean" -> (IF v.b THEN IntNum(1) ELSE IntNum(0))
    [] v.t = "string" -> StringToNumber(v.s)
    [] OTHER -> NaN

-----------------------------------------------------------------------------
(* Number arithmetic and conversions.                                      *)

\* +Infinity (sign 1) and -Infinity (sign -1)
Infinity(sign) == [t |-> "number", k |-> "Infinity", n |-> sign, d |-> 1]

\* place of a number among the magnitudes: -Infinity, the finite numbers,
\* Number.MAX_VALUE, +Infinity
Magnitude(v) ==
  CASE v.k = "finite" -> 0
    [] v.k = "MAX_VALUE" -> 1
    [] v.k = "Infinity" -> 2 * v.n
    [] OTHER -> 0

AddNum(a, b) ==
  IF IsNaN(a) \/ IsNaN(b) THEN NaN
  ELSE IF IsFinite(a) /\ IsFinite(b) THEN Num(a.n * b.d + b.n * a.d, a.d * b.d)
  ELSE IF Magnitude(a) = -Magnitude(b) THEN NaN
  ELSE IF IsFinite(a) THEN b
  ELSE a

\* a / b for finite a and b; n/0 is an infinity and 0/0 is NaN
DivNum(a, b) ==
  IF ~IsFinite(a) \/ ~IsFinite(b) THEN NaN
  ELSE IF b.n = 0 THEN (IF a.n = 0 THEN NaN ELSE Infinity(IF a.n < 0 THEN -1 ELSE 1))
  ELSE Num(a.n * b.d, a.d * b.n)

\* a < b on numbers; every comparison with NaN is false
LessNum(a, b) ==
  /\ ~IsNaN(a)
  /\ ~IsNaN(b)
  /\ IF IsFinite(a) /\ IsFinite(b) THEN a.n * b.d < b.n * a.d
     ELSE Magnitude(a) < Magnitude(b)

RECURSIVE NatToString(_)
NatToString(n) ==
  IF n < 10 THEN Digits[n + 1] ELSE NatToString(n \div 10) \o Digits[(n % 10) + 1]

\* digits of r/d after the decimal point (r < d), at most k of them
RECURSIVE FracDigits(_, _, _)
FracDigits(r, d, k) ==
  IF r = 0 \/ k = 0 THEN ""
  ELSE Digits[((10 * r) \div d) + 1] \o FracDigits((10 * r) % d, d, k - 1)

\* Number.prototype.toString
NumberToString(v) ==
  IF IsNaN(v) THEN "NaN"
  ELSE IF v.k = "Infinity" THEN (IF v.n < 0 THEN "-Infinity" ELSE "Infinity")
  ELSE IF v.k = "MAX_VALUE" THEN "1.7976931348623157e+308"
  ELSE LET a == Abs(v.n)
           whole == NatToString(a \div v.d)
           frac == FracDigits(a % v.d, v.d, 16)
       IN (IF v.n < 0 THEN "-" ELSE "")
            \o whole \o (IF frac = "" THEN "" ELSE "." \o frac)

\* ToString of a value; an array is the comma-joined ToString of its
\* elements, with null and undefined elements as the empty string
RECURSIVE JsToString(_)
JsToString(v) ==
  CASE v.t = "string" -> v.s
    [] v.t = "number" -> NumberToString(v)
    [] v.t = "undefined" -> "undefined"
    [] v.t = "null" -> "null"
    [] v.t = "boolean" -> (IF v.b THEN "true" ELSE "false")
    [] v.t = "array" ->
         Join([i \in 1..Len(v.a) |->
                 IF v.a[i].t \in {"null", "undefined"} THEN "" ELSE JsToString(v.a[i])], ",")
    [] OTHER -> "[object Object]"

Arr(a) == [t |-> "array", a |-> a]

\* Number(v): ToNumber, with an array converted through its string form
Number(v) == ToNumber(IF v.t = "array" THEN Str(JsToString(v)) ELSE v)

\* isNaN(v)
isNaN(v) == IsNaN(Number(v))

\* truthiness: false, 0, NaN, "", null and undefined are falsy
Truthy(v) ==
  CASE v.t = "number" -> ~IsNaN(v) /\ ~(IsFinite(v) /\ v.n = 0)
    [] v.t = "string" -> v.s # ""
    [] v.t = "boolean" -> v.b
    [] v.t \in {"undefined", "null"} -> FALSE
    [] OTHER -> TRUE

\* a || b
JsOr(a, b) == IF Truthy(a) THEN a ELSE b

\* a + b: string concatenation as soon as one operand is a string or an
\* array (whose primitive form is a string), numeric addition otherwise
JsAdd(a, b) ==
  IF a.t \in {"string", "array"} \/ b.t \in {"string", "array"}
  THEN Str(JsToString(a) \o JsToString(b))
  ELSE AddNum(Number(a), Number(b))

\* a / b
JsDiv(a, b) == DivNum(Number(a), Number(b))

\* a > 0 as the code writes it: the left operand is converted to a number
GreaterThanZero(a) == LessNum(IntNum(0), Number(a))

\* Math.max(a, b) and Math.min(a, b)
MathMax(a, b) ==
  LET x == Number(a)
      y == Number(b)
  IN IF IsNaN(x) \/ IsNaN(y) THEN NaN ELSE IF LessNum(x, y) THEN y ELSE x

MathMin(a, b) ==
  LET x == Number(a)
      y == Number(b)
  IN IF IsNaN(x) \/ IsNaN(y) THEN NaN ELSE IF LessNum(y, x) THEN y ELSE x

-----------------------------------------------------------------------------
(* Objects: a sequence of entries [k, v] in property-insertion order.      *)

EmptyObject == <<>>

HasKey(o, key) == \E i \in 1..Len(o) : o[i].k = key

\* o[key], undefined when the object has no such property
Get(o, key) ==
  IF HasKey(o, key) THEN o[CHOOSE i \in 1..Len(o) : o[i].k = key].v ELSE undefined

\* o[key] = v: an existing property keeps its place, a new one goes last
Set(o, key, v) ==
  IF HasKey(o, key)
  THEN [i \in 1..Len(o) |-> IF o[i].k = key THEN [k |-> key, v |-> v] ELSE o[i]]
  ELSE Append(o, [k |-> key, v |-> v])

\* a canonical array index: such property names are enumerated first
IsArrayIndex(key) ==
  /\ Len(key) \in 1..9
  /\ AllDigits(key)
  /\ (Len(key) = 1 \/ Char(key, 1) # "0")

\* the entries whose key satisfies the test, in their order
RECURSIVE SelectEntries(_, _)
SelectEntries(o, wantIndex) ==
  IF Len(o) = 0 THEN <<>>
  ELSE (IF IsArrayIndex(o[1].k) = wantIndex THEN <<o[1]>> ELSE <<>>)
         \o SelectEntries(Tail(o), wantIndex)

\* insertion of e into a sequence of index-keyed entries sorted ascending
RECURSIVE InsertByIndex(_, _)
InsertByIndex(sorted, e) ==
  IF Len(sorted) = 0 THEN <<e>>
  ELSE IF ParseDigits(e.k) < ParseDigits(sorted[1].k) THEN <<e>> \o sorted
  ELSE <<sorted[1]>> \o InsertByIndex(Tail(sorted), e)

RECURSIVE SortByIndex(_)
SortByIndex(es) ==
  IF Len(es) = 0 THEN <<>>
  ELSE InsertByIndex(SortByIndex(SubSeq(es, 1, Len(es) - 1)), es[Len(es)])

\* own properties in enumeration order: array indices ascending, then
\* the other names in insertion order
OwnEntries(o) == SortByIndex(SelectEntries(o, TRUE)) \o SelectEntries(o, FALSE)

\* Object.keys(o) and Object.values(o)
ObjectKeys(o) == [i \in 1..Len(o) |-> OwnEntries(o)[i].k]
ObjectValues(o) == [i \in 1..Len(o) |-> OwnEntries(o)[i].v]

-----------------------------------------------------------------------------
(* The setup page as it is mounted (SetupPage.tsx, the useState calls) and *)
(* the server as it is started (server.js: an empty database, no request   *)
(* in progress).  The calls of the data-processing functions below leave   *)
(* both as they are.                                                       *)

\* the aggregates the page holds before anything was uploaded
InitialAggregates ==
  [dailyAggregates |-> EmptyObject,
   weeklyAggregates |->
     [pumpDuration |-> IntNum(0), totalFlowARA |-> IntNum(0),
      totalFlowGalgenkanal |-> IntNum(0), avgPH_58 |-> IntNum(0),
      maxTruebung_Zulauf |-> IntNum(0)]]

\* effectPending: the filter effect has not yet run for the last render
\* that changed one of its dependencies (it runs once after mounting)
MountedPage ==
  [rawData |-> <<>>, processedData |-> <<>>, manualData |-> <<>>,
   fileUploaded |-> FALSE, timeRange |-> "week",
   customStartDate |-> Str(""), customEndDate |-> Str(""),
   aggregates |-> InitialAggregates, effectPending |-> TRUE]

\* the three tables of the database, each a set of rows, and the last id
\* that AUTOINCREMENT gave out in iot_data and in manual_corrections; a row
\* carries the number of the request that inserted it.  Of the time stamps
\* of a week row the model keeps whether created_at lies within the last
\* year ("recent") or before it ("old"); last_modified is left out.
EmptyTables ==
  [weeks |-> {}, iot_data |-> {}, manual_corrections |-> {},
   sequence |-> [iot_data |-> 0, manual_corrections |-> 0]]

\* tables: the rows as the shared connection sees them; journal: the rows as
\* they were when the open transaction began; queue: the statements handed
\* to the connection and not yet executed; requests and responses: the
\* requests received so far and the status each was answered with; bodies:
\* the body of each answer
StartedServer ==
  [tables |-> EmptyTables, journal |-> EmptyTables, inTransaction |-> FALSE,
   queue |-> <<>>, requests |-> <<>>, responses |-> <<>>, bodies |-> <<>>]

-----------------------------------------------------------------------------
(* Papa.parse(csvString, {header: true, skipEmptyLines: true,              *)
(* dynamicTyping: true}).  The texts of the model hold no quote character  *)
(* and no delimiter candidate other than the comma, so a line is split at  *)
(* its commas.                                                             *)

\* the FLOAT pattern of the dynamic typing:  -?(digits.? | .digits | digits.digits)
testFloat(value) ==
  LET u == Trim(value)
  IN \/ IsUnsignedDecimal(u)
     \/ (Len(u) > 1 /\ Char(u, 1) = "-" /\ IsUnsignedDecimal(Tail(u)))

\* typed value of one cell (no cell of the model has the ISO date-time form)
parseDynamic(value) ==
  IF value \in {"true", "TRUE"} THEN Bool(TRUE)
  ELSE IF value \in {"false", "FALSE"} THEN Bool(FALSE)
  ELSE IF testFloat(value) THEN StringToNumber(value)
  ELSE IF value = "" THEN null
  ELSE Str(value)

\* one row object: cell j goes under field j of the header line, the
\* cells beyond the header under __parsed_extra
RECURSIVE processRow(_, _, _, _)
processRow(fields, rowSource, j, row) ==
  IF j > Len(rowSource) THEN row
  ELSE LET value == parseDynamic(rowSource[j])
       IN IF j > Len(fields)
          THEN LET extra == Get(row, "__parsed_extra")
                   sofar == IF Truthy(extra) THEN extra.a ELSE <<>>
               IN processRow(fields, rowSource, j + 1,
                             Set(row, "__parsed_extra", Arr(Append(sofar, value))))
          ELSE processRow(fields, rowSource, j + 1, Set(row, fields[j], value))

\* the lines of the text that are not empty
NonEmptyLines(csvString) == SelectSeq(Split(csvString, "\n"), LAMBDA l : l # "")

\* result.data: the first non-empty line names the fields, every later
\* non-empty line is a row object
PapaParse(csvString) ==
  LET lines == NonEmptyLines(csvString)
  IN IF Len(lines) = 0 THEN <<>>
     ELSE LET fields == Split(lines[1], ",")
          IN [i \in 1..(Len(lines) - 1) |->
                processRow(fields, Split(lines[i + 1], ","), 1, EmptyObject)]

-----------------------------------------------------------------------------
(* parseCSVData (utils/dataProcessing.ts).                                 *)

\* key.replace(/ /g, '_') applied to every key of the row, in key order
RECURSIVE normalizeRow(_, _)
normalizeRow(entries, normalizedRow) ==
  IF Len(entries) = 0 THEN normalizedRow
  ELSE normalizeRow(Tail(entries),
                    Set(normalizedRow, ReplaceAll(entries[1].k, " ", "_"), entries[1].v))

\* storeRow without the overwrite by key: every accepted row is kept
storeRow_Appending(uniqueData, row) ==
  LET Time == Get(row, "Time")
  IN IF ~Truthy(Time) \/ typeof(Time) # "string" THEN uniqueData
     ELSE LET normalizedRow == normalizeRow(OwnEntries(row), EmptyObject)
          IN Append(uniqueData, [k |-> Get(normalizedRow, "Time").s, v |-> normalizedRow])

\* storeRow that keeps the row already stored under a Time
storeRow_FirstWins(uniqueData, row) ==
  LET Time == Get(row, "Time")
  IN IF ~Truthy(Time) \/ typeof(Time) # "string" THEN uniqueData
     ELSE LET normalizedRow == normalizeRow(OwnEntries(row), EmptyObject)
          IN IF HasKey(uniqueData, Get(normalizedRow, "Time").s) THEN uniqueData
             ELSE Set(uniqueData, Get(normalizedRow, "Time").s, normalizedRow)

\* the body of result.data.forEach: a row without a string Time is skipped,
\* any other row is stored under its Time
storeRow(uniqueData, row) ==
  LET Time == Get(row, "Time")
  IN IF ~Truthy(Time) \/ typeof(Time) # "string" THEN uniqueData
     ELSE LET normalizedRow == normalizeRow(OwnEntries(row), EmptyObject)
          IN Set(uniqueData, Get(normalizedRow, "Time").s, normalizedRow)

RECURSIVE uniqueDataOf(_, _)
uniqueDataOf(rows, uniqueData) ==
  IF Len(rows) = 0 THEN uniqueData
  ELSE uniqueDataOf(Tail(rows), storeRow(uniqueData, rows[1]))

parseCSVData(csvString) ==
  ObjectValues(uniqueDataOf(PapaParse(csvString), EmptyObject))

-----------------------------------------------------------------------------
(* The duplicate removal of handleCsvUpload (server.js).                   *)

\* a === b on primitive values
StrictEquals(a, b) == a = b /\ ~IsNaN(a)

\* duplicate removal in which a later row replaces the item kept so far
RECURSIVE uploadUniqueData_LastWins(_, _)
uploadUniqueData_LastWins(data, acc) ==
  IF Len(data) = 0 THEN acc
  ELSE LET current == data[1]
           same(i) == StrictEquals(Get(acc[i], "Time"), Get(current, "Time"))
           exists == \E i \in 1..Len(acc) : same(i)
       IN uploadUniqueData_LastWins(Tail(data),
            IF ~exists THEN Append(acc, current)
            ELSE [i \in 1..Len(acc) |-> IF same(i) THEN current ELSE acc[i]])

\* parsedData.data.reduce(...): a row is appended unless the accumulator
\* already holds an item with the same Time
RECURSIVE uploadUniqueData(_, _)
uploadUniqueData(data, acc) ==
  IF Len(data) = 0 THEN acc
  ELSE LET current == data[1]
           exists == \E i \in 1..Len(acc) :
                       StrictEquals(Get(acc[i], "Time"), Get(current, "Time"))
       IN uploadUniqueData(Tail(data), IF ~exists THEN Append(acc, current) ELSE acc)

-----------------------------------------------------------------------------
(* parseCSVFile (server.js).  The csv parser hands every line that is not  *)
(* empty to the 'data' handler as the array of its cells.  Every line of   *)
(* the files of the model has two cells, so that the parser accepts the    *)
(* file whether or not it insists on records of equal length.              *)

\* data[index], undefined past the end of the array
Cell(data, index) == IF index < Len(data) THEN Str(data[index + 1]) ELSE undefined

\* the text under which a value is used as a property key
PropertyKey(v) == IF v.t = "string" THEN v.s ELSE "undefined"

\* headerData.columns.forEach((col, index) => { row[col] = data[index] })
RECURSIVE rowOfColumns(_, _, _, _)
rowOfColumns(columns, data, index, row) ==
  IF index >= Len(columns) THEN row
  ELSE rowOfColumns(columns, data, index + 1, Set(row, columns[index + 1], Cell(data, index)))

\* the 'data' handler; parsing: [results, headerData, columns]
onData(parsing, data) ==
  IF Len(parsing.results) < 5
  THEN [parsing EXCEPT !.headerData = Set(@, PropertyKey(Cell(data, 0)), Cell(data, 1))]
  ELSE IF Len(parsing.results) = 5
  THEN [parsing EXCEPT !.columns = data]
  ELSE [parsing EXCEPT
          !.results = Append(@, rowOfColumns(parsing.columns, data, 0, EmptyObject))]

RECURSIVE readRecords(_, _)
readRecords(records, parsing) ==
  IF Len(records) = 0 THEN parsing
  ELSE readRecords(Tail(records), onData(parsing, records[1]))

\* what the promise of parseCSVFile resolves with for a file of these lines
parseCSVFile(lines) ==
  The({[headerInfo |-> parsing.headerData, data |-> parsing.results] :
       parsing \in {readRecords([i \in 1..Len(SelectSeq(lines, LAMBDA l : l # "")) |->
                                   Split(SelectSeq(lines, LAMBDA l : l # "")[i], ",")],
                                [results |-> <<>>, headerData |-> EmptyObject,
                                 columns |-> <<>>])}})

-----------------------------------------------------------------------------
(* Inputs of the parsing functions.                                        *)

\* the five metadata lines that precede the column-name line of an export
MetaLines ==
  <<"Start Time,01/01/2024 00:00", "End Time,07/01/2024 23:30",
    "Customer,Gemeinde", "Name,Pumpwerk", "Device,58">>

HeaderLines == {"Time,PH 58", "Zeit,PH 58"}

\* data lines: two timestamps with differing values, an empty and a numeric
\* Time cell, a short line, a line with a surplus cell and an empty line
RowLines ==
  {"01/01/2024 00:00,7", "01/01/2024 00:00,8", "01/01/2024 00:30,7",
   ",7", "5,7", "01/01/2024 00:30", "01/01/2024 00:00,8,9", ""}

CsvInput(meta, header, rows) ==
  [fn |-> "parseCSVData", meta |-> meta, header |-> header, rows |-> rows,
   csvString |-> Join(meta \o <<header>> \o rows, "\n")]

CsvInputs ==
  {CsvInput(meta, header, rows) :
     meta \in {<<>>, MetaLines}, header \in HeaderLines, rows \in SeqsUpTo(RowLines, MaxRows)}

\* rows as parseCSVFile builds them: every value is text, keys as in the file
UploadRows ==
  {<<[k |-> "Time", v |-> Str("01/01/2024 00:00")], [k |-> "PH 58", v |-> Str("7")]>>,
   <<[k |-> "Time", v |-> Str("01/01/2024 00:00")], [k |-> "PH 58", v |-> Str("8")]>>,
   <<[k |-> "Time", v |-> Str("01/01/2024 00:30")], [k |-> "PH 58", v |-> Str("7")]>>,
   <<[k |-> "Time", v |-> Str("01/01/2024 00:30")], [k |-> "PH 58", v |-> Str("8")]>>,
   <<[k |-> "PH 58", v |-> Str("7")]>>,
   <<[k |-> "PH 58", v |-> Str("8")]>>}

UploadInputs ==
  {[fn |-> "uploadUniqueData", data |-> data] : data \in SeqsUpTo(UploadRows, MaxRows)}

\* data lines of an uploaded file, among them an empty line
FileRowLines == {"01/01/2024 00:00,7", "01/01/2024 00:30,8", ""}

\* files with the five metadata lines, the column-name line and data lines
FileInputs ==
  {[fn |-> "parseCSVFile", rows |-> rows, lines |-> MetaLines \o <<"Time,PH 58">> \o rows] :
     rows \in SeqsUpTo(FileRowLines, MaxRows)}

-----------------------------------------------------------------------------
(* The calls: each action applies one function to the arguments drawn by   *)
(* the initial state and records what it returns.  callerData is the       *)
(* array of records handed to the function, as it is in the caller's hands *)
(* before and after the call.                                              *)

NotCalled == [t |-> "notCalled"]

InitParse ==
  /\ pc = "ready"
  /\ args \in CsvInputs \cup UploadInputs \cup FileInputs
  /\ ret = NotCalled
  /\ error = "none"
  /\ callerData = IF args.fn = "uploadUniqueData" THEN args.data ELSE undefined
  /\ page = MountedPage
  /\ server = StartedServer

CallParseCSVData ==
  /\ pc = "ready"
  /\ args.fn = "parseCSVData"
  /\ ret' = parseCSVData(args.csvString)
  /\ pc' = "done"
  /\ UNCHANGED <<args, error, callerData, page, server>>

CallUploadUniqueData ==
  /\ pc = "ready"
  /\ args.fn = "uploadUniqueData"
  /\ ret' = uploadUniqueData(args.data, <<>>)
  /\ pc' = "done"
  /\ UNCHANGED <<args, error, callerData, page, server>>

CallParseCSVFile ==
  /\ pc = "ready"
  /\ args.fn = "parseCSVFile"
  /\ ret' = parseCSVFile(args.lines)
  /\ pc' = "done"
  /\ UNCHANGED <<args, error, callerData, page, server>>

NextParse == CallParseCSVData \/ CallUploadUniqueData \/ CallParseCSVFile

SpecParse == InitParse /\ [][NextParse]_vars

\* the call of fn has returned normally, or has ended in an exception
Returned(fn) == pc = "done" /\ args.fn = fn /\ error = "none"
Threw(fn) == pc = "done" /\ args.fn = fn /\ error # "none"

-----------------------------------------------------------------------------
(* Properties of parsing and duplicate removal.                            *)

TimeOf(o) == Get(o, "Time")

\* a Time that parseCSVData accepts: a non-empty string
IsTimeString(v) == v.t = "string" /\ v.s # ""

\* the record carries exactly the fields of the row, under normalized keys
SameFieldValues(record, row) ==
  /\ Len(record) = Len(row)
  /\ \A i \in 1..Len(row) : Get(record, ReplaceAll(row[i].k, " ", "_")) = row[i].v

FirstRowWith(rows, time) ==
  CHOOSE i \in 1..Len(rows) :
    TimeOf(rows[i]) = time /\ \A j \in 1..(i - 1) : TimeOf(rows[j]) # time

LastRowWith(rows, time) ==
  CHOOSE i \in 1..Len(rows) :
    TimeOf(rows[i]) = time /\ \A j \in (i + 1)..Len(rows) : TimeOf(rows[j]) # time

\* the Time cells of the data lines of the input text, read at the column
\* that the column-name line calls Time
\* a cell that holds a timestamp of the form DD/MM/YYYY HH:MM
IsTimestampCell(c) == IndexOf(c, "/") > 0

DataLineTimes ==
  LET names == Split(args.header, ",")
      col == CHOOSE c \in 1..Len(names) : names[c] = "Time"
      lines == SelectSeq(args.rows, LAMBDA l : l # "")
  IN {Split(lines[i], ",")[col] : i \in 1..Len(lines)}

\* C1: for a text of 5 metadata lines, a column-name line with a Time column
\* and data rows, parseCSVData returns one record per distinct timestamp of
\* the data rows and no record for a metadata line.
C1_MetadataSkipped ==
  (Returned("parseCSVData") /\ Len(args.meta) = 5
     /\ "Time" \in Range(Split(args.header, ",")))
  => /\ {TimeOf(ret[j]) : j \in 1..Len(ret)}
          = {Str(c) : c \in {d \in DataLineTimes : IsTimestampCell(d)}}
     /\ \A i, j \in 1..Len(ret) : i # j => TimeOf(ret[i]) # TimeOf(ret[j])

\* C2: the output never holds two records with the same Time, and holds a
\* record with Time t exactly when some parsed row has the non-empty
\* string t as its Time.
C2_OneRecordPerTime ==
  Returned("parseCSVData")
  => LET rows == PapaParse(args.csvString)
     IN /\ \A i, j \in 1..Len(ret) : i # j => TimeOf(ret[i]) # TimeOf(ret[j])
        /\ \A j \in 1..Len(ret) :
             /\ IsTimeString(TimeOf(ret[j]))
             /\ \E i \in 1..Len(rows) : TimeOf(rows[i]) = TimeOf(ret[j])
        /\ \A i \in 1..Len(rows) :
             IsTimeString(TimeOf(rows[i]))
             => \E j \in 1..Len(ret) : TimeOf(ret[j]) = TimeOf(rows[i])

\* three rows of which two share a timestamp and one has no string Time
C2_Witness ==
  /\ Returned("parseCSVData")
  /\ LET rows == PapaParse(args.csvString)
     IN /\ Len(rows) = 3
        /\ \E i, j, m \in 1..3 :
             /\ i # j
             /\ IsTimeString(TimeOf(rows[i]))
             /\ TimeOf(rows[i]) = TimeOf(rows[j])
             /\ ~IsTimeString(TimeOf(rows[m]))
  /\ Len(ret) = 1

\* C3: the record of a Time has the field values of the last row with that
\* Time, and records are ordered by the first occurrence of their Time.
C3_LastValuesFirstPosition ==
  Returned("parseCSVData")
  => LET rows == PapaParse(args.csvString)
     IN /\ \A j \in 1..Len(ret) :
             SameFieldValues(ret[j], rows[LastRowWith(rows, TimeOf(ret[j]))])
        /\ \A i, j \in 1..Len(ret) :
             i < j => FirstRowWith(rows, TimeOf(ret[i])) < FirstRowWith(rows, TimeOf(ret[j]))

\* rows t1, t2, t1 with different values for t1: the output is t1 (with the
\* value of the third row), then t2
C3_Witness ==
  /\ Returned("parseCSVData")
  /\ LET rows == PapaParse(args.csvString)
     IN /\ Len(rows) = 3
        /\ IsTimeString(TimeOf(rows[1]))
        /\ IsTimeString(TimeOf(rows[2]))
        /\ TimeOf(rows[1]) = TimeOf(rows[3])
        /\ TimeOf(rows[1]) # TimeOf(rows[2])
        /\ Get(rows[1], "PH 58") # Get(rows[3], "PH 58")
        /\ Len(ret) = 2
        /\ TimeOf(ret[1]) = TimeOf(rows[1])
        /\ Get(ret[1], "PH_58") = Get(rows[3], "PH 58")

\* C4 as stated: on both loading paths the record kept for a timestamp has
\* the field values of the first row with that timestamp.
C4_FirstOccurrenceKept ==
  /\ Returned("parseCSVData")
     => LET rows == PapaParse(args.csvString)
        IN \A j \in 1..Len(ret) :
             SameFieldValues(ret[j], rows[FirstRowWith(rows, TimeOf(ret[j]))])
  /\ Returned("uploadUniqueData")
     => \A j \in 1..Len(ret) : ret[j] = args.data[FirstRowWith(args.data, TimeOf(ret[j]))]

\* C4 amended: the duplicate removal of handleCsvUpload keeps, for every
\* timestamp of the rows, the first row with it; parseCSVData keeps the
\* field values of the last row with it.
C4_FirstOnUploadLastOnParse ==
  /\ Returned("uploadUniqueData")
     => /\ \A j \in 1..Len(ret) :
             ret[j] = args.data[FirstRowWith(args.data, TimeOf(ret[j]))]
        /\ \A i, j \in 1..Len(ret) : i # j => TimeOf(ret[i]) # TimeOf(ret[j])
        /\ \A i \in 1..Len(args.data) :
             \E j \in 1..Len(ret) : TimeOf(ret[j]) = TimeOf(args.data[i])
  /\ Returned("parseCSVData")
     => LET rows == PapaParse(args.csvString)
        IN \A j \in 1..Len(ret) :
             SameFieldValues(ret[j], rows[LastRowWith(rows, TimeOf(ret[j]))])

\* two uploaded rows with one timestamp and different values: the first stays
C4_Witness ==
  /\ Returned("uploadUniqueData")
  /\ Len(args.data) >= 2
  /\ IsTimeString(TimeOf(args.data[1]))
  /\ TimeOf(args.data[1]) = TimeOf(args.data[2])
  /\ args.data[1] # args.data[2]
  /\ ret[1] = args.data[1]
  /\ \A j \in 1..Len(ret) : ret[j] # args.data[2]

-----------------------------------------------------------------------------
(* calculateAggregates (utils/dataProcessing.ts).                          *)

\* item.Time.split(' ')[0]
DateToken(Time) == Split(Time, " ")[1]

NewDaily(date) ==
  [date |-> Str(date), pumpDuration |-> IntNum(0), flowARA |-> IntNum(0),
   flowGalgenkanal |-> IntNum(0), avgPH_58 |-> IntNum(0), avgPH_59 |-> IntNum(0),
   maxTruebung |-> IntNum(0), minTruebung |-> MAX_VALUE, dataPoints |-> IntNum(0)]

\* NewWeekly whose turbidity minimum starts at 0
NewWeekly_ZeroMinimum ==
  [pumpDuration |-> IntNum(0), totalFlowARA |-> IntNum(0),
   totalFlowGalgenkanal |-> IntNum(0), avgPH_58 |-> IntNum(0), avgPH_59 |-> IntNum(0),
   maxTruebung_Zulauf |-> IntNum(0), minTruebung_Zulauf |-> IntNum(0),
   avgTruebung_Zulauf |-> IntNum(0), dataPoints |-> IntNum(0)]

NewWeekly ==
  [pumpDuration |-> IntNum(0), totalFlowARA |-> IntNum(0),
   totalFlowGalgenkanal |-> IntNum(0), avgPH_58 |-> IntNum(0), avgPH_59 |-> IntNum(0),
   maxTruebung_Zulauf |-> IntNum(0), minTruebung_Zulauf |-> MAX_VALUE,
   avgTruebung_Zulauf |-> IntNum(0), dataPoints |-> IntNum(0)]

\* PumpRunning that asks for flow on both channels
PumpRunning_BothChannels(item) ==
  /\ GreaterThanZero(JsOr(Get(item, "Flow_Rate_1"), IntNum(0)))
  /\ GreaterThanZero(JsOr(Get(item, "Flow_Rate_2"), IntNum(0)))

\* (item.Flow_Rate_1 || 0) > 0 || (item.Flow_Rate_2 || 0) > 0
PumpRunning(item) ==
  \/ GreaterThanZero(JsOr(Get(item, "Flow_Rate_1"), IntNum(0)))
  \/ GreaterThanZero(JsOr(Get(item, "Flow_Rate_2"), IntNum(0)))

\* the update of the day's bucket by one item
UpdateDaily(daily, item) ==
  [daily EXCEPT
     !.dataPoints = JsAdd(@, IntNum(1)),
     !.flowARA = JsAdd(@, JsOr(Get(item, "ARA_Flow"), IntNum(0))),
     !.flowGalgenkanal = JsAdd(@, JsOr(Get(item, "Flow_Rate_2"), IntNum(0))),
     !.pumpDuration = IF PumpRunning(item) THEN JsAdd(@, Num(1, 2)) ELSE @,
     !.avgPH_58 = JsAdd(@, JsOr(Get(item, "PH_58"), IntNum(0))),
     !.avgPH_59 = JsAdd(@, JsOr(Get(item, "PH_59"), IntNum(0))),
     !.maxTruebung = MathMax(@, JsOr(Get(item, "Truebung_Zulauf"), IntNum(0))),
     !.minTruebung = MathMin(@, JsOr(Get(item, "Truebung_Zulauf"), IntNum(0)))]

\* the update of the weekly accumulator by one item
UpdateWeekly(weekly, item) ==
  [weekly EXCEPT
     !.dataPoints = JsAdd(@, IntNum(1)),
     !.totalFlowARA = JsAdd(@, JsOr(Get(item, "ARA_Flow"), IntNum(0))),
     !.totalFlowGalgenkanal = JsAdd(@, JsOr(Get(item, "Flow_Rate_2"), IntNum(0))),
     !.pumpDuration = IF PumpRunning(item) THEN JsAdd(@, Num(1, 2)) ELSE @,
     !.avgPH_58 = JsAdd(@, JsOr(Get(item, "PH_58"), IntNum(0))),
     !.avgPH_59 = JsAdd(@, JsOr(Get(item, "PH_59"), IntNum(0))),
     !.maxTruebung_Zulauf = MathMax(@, JsOr(Get(item, "Truebung_Zulauf"), IntNum(0))),
     !.minTruebung_Zulauf = MathMin(@, JsOr(Get(item, "Truebung_Zulauf"), IntNum(0))),
     !.avgTruebung_Zulauf = JsAdd(@, JsOr(Get(item, "Truebung_Zulauf"), IntNum(0)))]

\* item.Time.split(' ') is a TypeError when Time is no string: the call
\* ends there, with no result
AggregatesThrow(data) == \E i \in 1..Len(data) : Get(data[i], "Time").t # "string"

\* the body of data.forEach applied to the items in order
RECURSIVE Accumulate(_, _)
Accumulate(data, acc) ==
  IF Len(data) = 0 THEN acc
  ELSE LET item == data[1]
           date == DateToken(Get(item, "Time").s)
           daily == IF HasKey(acc.dailyAggregates, date)
                    THEN Get(acc.dailyAggregates, date)
                    ELSE NewDaily(date)
       IN Accumulate(Tail(data),
            [dailyAggregates |->
               Set(acc.dailyAggregates, date, UpdateDaily(daily, item)),
             weeklyAggregates |-> UpdateWeekly(acc.weeklyAggregates, item)])

\* the division of the running sums of a day by its dataPoints
DailyAverages(day) ==
  IF LessNum(IntNum(0), Number(day.dataPoints))
  THEN [day EXCEPT !.avgPH_58 = JsDiv(@, day.dataPoints),
                   !.avgPH_59 = JsDiv(@, day.dataPoints)]
  ELSE day

\* the division of the weekly running sums by the weekly dataPoints
WeeklyAverages(weekly) ==
  IF LessNum(IntNum(0), Number(weekly.dataPoints))
  THEN [weekly EXCEPT !.avgPH_58 = JsDiv(@, weekly.dataPoints),
                      !.avgPH_59 = JsDiv(@, weekly.dataPoints),
                      !.avgTruebung_Zulauf = JsDiv(@, weekly.dataPoints)]
  ELSE weekly

calculateAggregates(data) ==
  The({[dailyAggregates |->
          [i \in 1..Len(acc.dailyAggregates) |->
             [k |-> acc.dailyAggregates[i].k,
              v |-> DailyAverages(acc.dailyAggregates[i].v)]],
        weeklyAggregates |-> WeeklyAverages(acc.weeklyAggregates)] :
       acc \in {Accumulate(data, [dailyAggregates |-> EmptyObject,
                                  weeklyAggregates |-> NewWeekly])}})

-----------------------------------------------------------------------------
(* Inputs of calculateAggregates: records of two days whose fields are     *)
(* numbers, text (as a server row delivers them), null or missing.         *)

\* a record with the given fields; a field given as undefined is left out
Record(Time, fr1, fr2, ara, ph58, ph59, tr) ==
  SelectSeq(<<[k |-> "Time", v |-> Str(Time)],
              [k |-> "Flow_Rate_1", v |-> fr1], [k |-> "Flow_Rate_2", v |-> fr2],
              [k |-> "ARA_Flow", v |-> ara], [k |-> "PH_58", v |-> ph58],
              [k |-> "PH_59", v |-> ph59], [k |-> "Truebung_Zulauf", v |-> tr]>>,
            LAMBDA e : e.v # undefined)

AggRecords ==
  {Record("01/01/2024 00:00", IntNum(1), IntNum(0), IntNum(3), IntNum(7), IntNum(6), IntNum(9)),
   Record("01/01/2024 00:30", IntNum(0), IntNum(2), IntNum(5), IntNum(8), IntNum(6), IntNum(4)),
   Record("01/01/2024 01:00", IntNum(0), IntNum(0), IntNum(0), undefined, undefined, undefined),
   Record("01/01/2024 01:30", undefined, undefined, undefined, undefined, undefined, undefined),
   Record("01/01/2024 02:00", IntNum(-1), undefined, Str("n/a"), IntNum(7), undefined, undefined),
   Record("01/01/2024 02:30", Str("3"), Str("0"), Str("5"), Str("7"), Str("6"), Str("9")),
   Record("01/01/2024 03:00", undefined, IntNum(2), undefined, undefined, undefined, undefined),
   Record("01/01/2024 03:30", null, null, null, null, null, null),
   Record("02/01/2024 00:00", IntNum(1), IntNum(2), IntNum(3), IntNum(8), undefined, IntNum(4)),
   Record("02/01/2024 00:30", undefined, IntNum(-2), IntNum(5), IntNum(7), IntNum(6), undefined),
   Record("02/01/2024 01:00", undefined, undefined, undefined, undefined, undefined, undefined),
   Record("02/01/2024 01:30", IntNum(0), IntNum(0), Str("n/a"), Str("7"), undefined, undefined)}

AggInputs ==
  {[fn |-> "calculateAggregates", data |-> data] : data \in SeqsUpTo(AggRecords, MaxRecords)}

InitAgg ==
  /\ pc = "ready"
  /\ args \in AggInputs
  /\ ret = NotCalled
  /\ error = "none"
  /\ callerData = args.data
  /\ page = MountedPage
  /\ server = StartedServer

CallCalculateAggregates ==
  /\ pc = "ready"
  /\ args.fn = "calculateAggregates"
  /\ IF AggregatesThrow(args.data)
     THEN ret' = undefined /\ error' = "TypeError"
     ELSE ret' = calculateAggregates(args.data) /\ error' = "none"
  /\ pc' = "done"
  /\ UNCHANGED <<args, callerData, page, server>>

NextAgg == CallCalculateAggregates

SpecAgg == InitAgg /\ [][NextAgg]_vars

-----------------------------------------------------------------------------
(* Properties of calculateAggregates.                                      *)

\* the value is a number
IsNumber(v) == v.t = "number" /\ v.k = "finite"

\* the value is a number, or text that denotes one
IsNumeric(v) == IsNumber(v) \/ (v.t = "string" /\ Trim(v.s) # "" /\ IsFinite(StringToNumber(v.s)))

\* the value denotes a number greater than 0
IsPositive(v) == IsNumeric(v) /\ LessNum(IntNum(0), ToNumber(v))

\* positions of the records of the date, and of the whole week
GroupOf(data, date) == {i \in 1..Len(data) : DateToken(TimeOf(data[i]).s) = date}
WholeWeek(data) == 1..Len(data)

\* sum of f[i] over the finite set of positions
RECURSIVE SumOver(_, _)
SumOver(positions, f) ==
  IF positions = {} THEN IntNum(0)
  ELSE LET i == CHOOSE x \in positions : TRUE
       IN AddNum(f[i], SumOver(positions \ {i}, f))

\* the samples of a group with flow on one of the two channels
WithFlow(data, group) ==
  {i \in group : IsPositive(Get(data[i], "Flow_Rate_1")) \/ IsPositive(Get(data[i], "Flow_Rate_2"))}

\* C7: in every daily bucket and in the weekly summary, pumpDuration is
\* 0.5 times the number of the group's samples with Flow_Rate_1 > 0 or
\* Flow_Rate_2 > 0.
C7_PumpDuration ==
  Returned("calculateAggregates")
  => /\ \A b \in 1..Len(ret.dailyAggregates) :
          ret.dailyAggregates[b].v.pumpDuration
            = Num(Cardinality(WithFlow(args.data, GroupOf(args.data, ret.dailyAggregates[b].k))), 2)
     /\ ret.weeklyAggregates.pumpDuration
          = Num(Cardinality(WithFlow(args.data, WholeWeek(args.data))), 2)

\* a day with three samples of which exactly one has flow, on one channel
C7_Witness ==
  /\ Returned("calculateAggregates")
  /\ Len(args.data) = 3
  /\ Len(ret.dailyAggregates) = 1
  /\ \E i \in 1..3 :
       /\ IsPositive(Get(args.data[i], "Flow_Rate_1"))
       /\ ~IsPositive(Get(args.data[i], "Flow_Rate_2"))
       /\ \A j \in (1..3) \ {i} :
            /\ ~IsPositive(Get(args.data[j], "Flow_Rate_1"))
            /\ ~IsPositive(Get(args.data[j], "Flow_Rate_2"))
  /\ ret.dailyAggregates[1].v.pumpDuration = Num(1, 2)
  /\ ret.weeklyAggregates.pumpDuration = Num(1, 2)

\* the number itself, 0 for a value that is missing or not a number
NumberOrZero(v) == IF IsNumber(v) THEN v ELSE IntNum(0)

\* C8: for every date, flowARA is the numeric sum of ARA_Flow and
\* flowGalgenkanal the numeric sum of Flow_Rate_2 over the records of
\* the date, a missing or non-numeric value counting as 0.
C8_FlowSums ==
  Returned("calculateAggregates")
  => \A b \in 1..Len(ret.dailyAggregates) :
       LET group == GroupOf(args.data, ret.dailyAggregates[b].k)
           ara == [i \in group |-> NumberOrZero(Get(args.data[i], "ARA_Flow"))]
           galgenkanal == [i \in group |-> NumberOrZero(Get(args.data[i], "Flow_Rate_2"))]
       IN /\ ret.dailyAggregates[b].v.flowARA = SumOver(group, ara)
          /\ ret.dailyAggregates[b].v.flowGalgenkanal = SumOver(group, galgenkanal)

\* the samples of a group that have the field, as a number
Having(data, group, field) == {i \in group : IsNumber(Get(data[i], field))}

MeanOver(data, positions, field) ==
  LET value == [i \in positions |-> Get(data[i], field)]
  IN DivNum(SumOver(positions, value), IntNum(Cardinality(positions)))

\* C9: in every daily bucket and in the weekly summary, avgPH_58 and
\* avgPH_59 are the arithmetic mean of the field over the samples of the
\* group that have the field.
C9_MeanOverPresent ==
  Returned("calculateAggregates")
  => /\ \A b \in 1..Len(ret.dailyAggregates) :
          LET group == GroupOf(args.data, ret.dailyAggregates[b].k)
          IN /\ Having(args.data, group, "PH_58") # {}
                => ret.dailyAggregates[b].v.avgPH_58
                     = MeanOver(args.data, Having(args.data, group, "PH_58"), "PH_58")
             /\ Having(args.data, group, "PH_59") # {}
                => ret.dailyAggregates[b].v.avgPH_59
                     = MeanOver(args.data, Having(args.data, group, "PH_59"), "PH_59")
     /\ Having(args.data, WholeWeek(args.data), "PH_58") # {}
        => ret.weeklyAggregates.avgPH_58
             = MeanOver(args.data, Having(args.data, WholeWeek(args.data), "PH_58"), "PH_58")
     /\ Having(args.data, WholeWeek(args.data), "PH_59") # {}
        => ret.weeklyAggregates.avgPH_59
             = MeanOver(args.data, Having(args.data, WholeWeek(args.data), "PH_59"), "PH_59")

-----------------------------------------------------------------------------
(* identifyOutliers (utils/dataProcessing.ts).  Array positions are the    *)
(* 0-based indices of the code; At reads an array at such an index.        *)

\* array[index], undefined outside 0..length-1
At(array, index) ==
  IF index >= 0 /\ index < Len(array) THEN array[index + 1] ELSE undefined

SubNum(a, b) == AddNum(a, Neg(b))

\* 1.5 * x
TimesOneAndAHalf(x) == IF IsFinite(x) THEN Num(3 * x.n, 2 * x.d) ELSE x

\* values.sort((a, b) => a - b) on numbers that are not NaN
RECURSIVE InsertNum(_, _)
InsertNum(sorted, x) ==
  IF Len(sorted) = 0 THEN <<x>>
  ELSE IF LessNum(x, sorted[1]) THEN <<x>> \o sorted
  ELSE <<sorted[1]>> \o InsertNum(Tail(sorted), x)

RECURSIVE SortNum(_)
SortNum(values) ==
  IF Len(values) = 0 THEN <<>>
  ELSE InsertNum(SortNum(SubSeq(values, 1, Len(values) - 1)), values[Len(values)])

\* data.map(item => Number(item[field])).filter(val => !isNaN(val)), sorted
SortedValues(data, field) ==
  SortNum(SelectSeq([i \in 1..Len(data) |-> Number(Get(data[i], field))],
                    LAMBDA val : ~IsNaN(val)))

\* values[Math.floor(values.length * 0.25)] and its 0.75 counterpart;
\* reading past the end of the array gives undefined, a NaN in arithmetic
Quartile1(values) == Number(At(values, Len(values) \div 4))
Quartile3(values) == Number(At(values, (3 * Len(values)) \div 4))

LowerBound(values) ==
  SubNum(Quartile1(values),
         TimesOneAndAHalf(SubNum(Quartile3(values), Quartile1(values))))

UpperBound(values) ==
  AddNum(Quartile3(values),
         TimesOneAndAHalf(SubNum(Quartile3(values), Quartile1(values))))

\* the test of the second loop for one item
IsOutlier(item, field, lowerBound, upperBound) ==
  LET value == Number(Get(item, field))
  IN ~IsNaN(value) /\ (LessNum(value, lowerBound) \/ LessNum(upperBound, value))

\* OutlierIndicesFrom that reports positions counted from 1
RECURSIVE OutlierIndicesFrom_OneBased(_, _, _, _, _)
OutlierIndicesFrom_OneBased(data, field, lowerBound, upperBound, index) ==
  IF index >= Len(data) THEN <<>>
  ELSE (IF IsOutlier(At(data, index), field, lowerBound, upperBound)
        THEN <<index + 1>> ELSE <<>>)
         \o OutlierIndicesFrom_OneBased(data, field, lowerBound, upperBound, index + 1)

\* data.forEach((item, index) => ...push(index)): the indices in data order
RECURSIVE OutlierIndicesFrom(_, _, _, _, _)
OutlierIndicesFrom(data, field, lowerBound, upperBound, index) ==
  IF index >= Len(data) THEN <<>>
  ELSE (IF IsOutlier(At(data, index), field, lowerBound, upperBound)
        THEN <<index>> ELSE <<>>)
         \o OutlierIndicesFrom(data, field, lowerBound, upperBound, index + 1)

identifyOutliers(data, field) ==
  LET values == SortedValues(data, field)
  IN OutlierIndicesFrom(data, field, LowerBound(values), UpperBound(values), 0)

-----------------------------------------------------------------------------
(* correctOutliers (utils/dataProcessing.ts).                              *)

\* a membership test that looks at the first index of the list only
Includes_First(outlierIndices, index) ==
  Len(outlierIndices) > 0 /\ outlierIndices[1] = index

\* outlierIndices.includes(index)
Includes(outlierIndices, index) == \E i \in 1..Len(outlierIndices) : outlierIndices[i] = index

\* PrevIndex that stops at the index below, flagged or not
PrevIndex_Adjacent(outlierIndices, prevIndex) == prevIndex

\* the first while loop: the nearest lower index that is not flagged, or -1
RECURSIVE PrevIndex(_, _)
PrevIndex(outlierIndices, prevIndex) ==
  IF prevIndex >= 0 /\ Includes(outlierIndices, prevIndex)
  THEN PrevIndex(outlierIndices, prevIndex - 1)
  ELSE prevIndex

\* NextIndex that stops at the next index, flagged or not
NextIndex_Adjacent(outlierIndices, length, nextIndex) == nextIndex

\* the second while loop: the nearest higher index that is not flagged, or
\* the first index at or past data.length
RECURSIVE NextIndex(_, _, _)
NextIndex(outlierIndices, length, nextIndex) ==
  IF nextIndex < length /\ Includes(outlierIndices, nextIndex)
  THEN NextIndex(outlierIndices, length, nextIndex + 1)
  ELSE nextIndex

\* correctedData[index] = element: a write past the end lengthens the
\* array, the skipped positions reading as undefined (an empty object here)
WriteAt(array, index, element) ==
  [i \in 1..(IF index + 1 > Len(array) THEN index + 1 ELSE Len(array)) |->
     IF i = index + 1 THEN element
     ELSE IF i <= Len(array) THEN array[i] ELSE EmptyObject]

\* WithField without the spread: an object that holds the field alone
WithField_Bare(correctedData, index, field, value) == Set(EmptyObject, field, value)

\* { ...correctedData[index], [field]: value }
WithField(correctedData, index, field, value) ==
  Set(IF index < Len(correctedData) THEN At(correctedData, index) ELSE EmptyObject,
      field, value)

\* a pass that takes the records next to the index as neighbours and reads
\* their values from the array being corrected
CorrectOne_Chained(data, field, outlierIndices, correctedData, index) ==
  LET prevIndex == index - 1
      nextIndex == index + 1
  IN IF prevIndex >= 0 /\ nextIndex < Len(data)
     THEN LET prevValue == Number(Get(At(correctedData, prevIndex), field))
              nextValue == Number(Get(At(correctedData, nextIndex), field))
              correctedValue == DivNum(AddNum(prevValue, nextValue), IntNum(2))
          IN WriteAt(correctedData, index,
                     WithField(correctedData, index, field, correctedValue))
     ELSE IF prevIndex >= 0 /\ prevIndex < Len(correctedData)
     THEN WriteAt(correctedData, index,
                  WithField(correctedData, index, field,
                            Get(At(correctedData, prevIndex), field)))
     ELSE IF nextIndex < Len(data)
     THEN WriteAt(correctedData, index,
                  WithField(correctedData, index, field,
                            Get(At(correctedData, nextIndex), field)))
     ELSE correctedData

\* one pass of outlierIndices.forEach
CorrectOne(data, field, outlierIndices, correctedData, index) ==
  LET prevIndex == PrevIndex(outlierIndices, index - 1)
      nextIndex == NextIndex(outlierIndices, Len(data), index + 1)
  IN IF prevIndex >= 0 /\ nextIndex < Len(data)
     THEN LET prevValue == Number(Get(At(data, prevIndex), field))
              nextValue == Number(Get(At(data, nextIndex), field))
              correctedValue == DivNum(AddNum(prevValue, nextValue), IntNum(2))
          IN WriteAt(correctedData, index,
                     WithField(correctedData, index, field, correctedValue))
     ELSE IF prevIndex >= 0
     THEN WriteAt(correctedData, index,
                  WithField(correctedData, index, field, Get(At(data, prevIndex), field)))
     ELSE IF nextIndex < Len(data)
     THEN WriteAt(correctedData, index,
                  WithField(correctedData, index, field, Get(At(data, nextIndex), field)))
     ELSE correctedData

\* data[prevIndex][field] is a TypeError when data has no element at
\* prevIndex, which the second branch reaches for an index past the end
CorrectThrows(data, outlierIndices) ==
  \E p \in 1..Len(outlierIndices) :
    LET index == outlierIndices[p]
        prevIndex == PrevIndex(outlierIndices, index - 1)
        nextIndex == NextIndex(outlierIndices, Len(data), index + 1)
    IN ~(prevIndex >= 0 /\ nextIndex < Len(data)) /\ prevIndex >= Len(data)

RECURSIVE CorrectFrom(_, _, _, _, _)
CorrectFrom(data, field, outlierIndices, correctedData, pos) ==
  IF pos > Len(outlierIndices) THEN correctedData
  ELSE CorrectFrom(data, field, outlierIndices,
                   CorrectOne(data, field, outlierIndices, correctedData, outlierIndices[pos]),
                   pos + 1)

\* correctOutliers that removes the flagged records instead of replacing
\* their values
correctOutliers_Removing(data, field, outlierIndices) ==
  LET kept == {i \in 0..(Len(data) - 1) : ~Includes(outlierIndices, i)}
      RECURSIVE From(_)
      From(i) == IF i >= Len(data) THEN <<>>
                 ELSE (IF i \in kept THEN <<At(data, i)>> ELSE <<>>) \o From(i + 1)
  IN From(0)


\* const correctedData = [...data]: the corrections are written to a copy
\* of the array, and a corrected record is a new object
correctOutliers(data, field, outlierIndices) ==
  CorrectFrom(data, field, outlierIndices, data, 1)

\* the array handed in, as the caller finds it after the call: no
\* statement of the function writes to data or to one of its records
dataAfterCorrectOutliers(data, field, outlierIndices) == data

-----------------------------------------------------------------------------
(* Inputs of identifyOutliers and correctOutliers: records that hold the   *)
(* field as a number, as text, as null (an empty CSV cell), or not at all. *)

\* the Time of the record at the 0-based position
TimeAt(index) == "01/01/2024 0" \o NatToString(index) \o ":00"

\* a record with a Time, the examined field and one more field; a value
\* given as undefined leaves the field out
OutlierRecord(index, value) ==
  SelectSeq(<<[k |-> "Time", v |-> Str(TimeAt(index))],
              [k |-> "PH_58", v |-> value],
              [k |-> "PH_59", v |-> IntNum(6)]>>,
            LAMBDA e : e.v # undefined)

OutlierData(values) == [i \in 1..Len(values) |-> OutlierRecord(i - 1, values[i])]

IdentifyValues ==
  {IntNum(-5), IntNum(10), Str("10"), null, Str("abc"), undefined}

\* the values 1, 2, 3, 4, 5, 6, 100 of the reference example
ExampleValues == <<IntNum(1), IntNum(2), IntNum(3), IntNum(4), IntNum(5), IntNum(6), IntNum(100)>>

\* five values with an outlier at either end of the sorted values
SpreadValues == <<IntNum(-5), IntNum(10), IntNum(10), IntNum(10), IntNum(999)>>

IdentifyInputs ==
  {[fn |-> "identifyOutliers", data |-> OutlierData(values), field |-> "PH_58"] :
     values \in SeqsUpTo(IdentifyValues, MaxValues)
                  \cup {[i \in 1..7 |-> ExampleValues[order[i]]] : order \in Permutations(1..7)}
                  \cup {[i \in 1..5 |-> SpreadValues[order[i]]] : order \in Permutations(1..5)}}

CorrectValues == {IntNum(10), IntNum(20), IntNum(999), Str("n/a")}

\* index lists in any order, with repetitions, and with indices at and past
\* the end of the data
CorrectInputs ==
  {[fn |-> "correctOutliers", data |-> OutlierData(values), field |-> "PH_58",
    outlierIndices |-> outlierIndices] :
     values \in SeqsUpTo(CorrectValues, MaxData),
     outlierIndices \in SeqsUpTo(0..MaxData, MaxIndices)}

InitOutlier ==
  /\ pc = "ready"
  /\ args \in IdentifyInputs \cup
              {a \in CorrectInputs :
                 \A p \in 1..Len(a.outlierIndices) : a.outlierIndices[p] <= Len(a.data) + 1}
  /\ ret = NotCalled
  /\ error = "none"
  /\ callerData = args.data
  /\ page = MountedPage
  /\ server = StartedServer

CallIdentifyOutliers ==
  /\ pc = "ready"
  /\ args.fn = "identifyOutliers"
  /\ ret' = identifyOutliers(args.data, args.field)
  /\ error' = "none"
  /\ pc' = "done"
  /\ UNCHANGED <<args, callerData, page, server>>

CallCorrectOutliers ==
  /\ pc = "ready"
  /\ args.fn = "correctOutliers"
  /\ IF CorrectThrows(args.data, args.outlierIndices)
     THEN ret' = undefined /\ error' = "TypeError"
     ELSE ret' = correctOutliers(args.data, args.field, args.outlierIndices)
          /\ error' = "none"
  /\ callerData' = dataAfterCorrectOutliers(args.data, args.field, args.outlierIndices)
  /\ pc' = "done"
  /\ UNCHANGED <<args, page, server>>

\* the detection followed by the correction of what it found, as
\* handleCorrectOutliers chains them (SetupPage.tsx): the correction is
\* called when the detection returned at least one index
CallCorrectIdentified ==
  /\ pc = "done"
  /\ args.fn = "identifyOutliers"
  /\ error = "none"
  /\ Len(ret) > 0
  /\ IF CorrectThrows(args.data, ret)
     THEN ret' = undefined /\ error' = "TypeError"
     ELSE ret' = [outlierIndices |-> ret,
                  correctedData |-> correctOutliers(args.data, args.field, ret)]
          /\ error' = "none"
  /\ callerData' = dataAfterCorrectOutliers(args.data, args.field, ret)
  /\ pc' = "corrected"
  /\ UNCHANGED <<args, page, server>>

NextOutlier == CallIdentifyOutliers \/ CallCorrectOutliers \/ CallCorrectIdentified

SpecOutlier == InitOutlier /\ [][NextOutlier]_vars

-----------------------------------------------------------------------------
(* Properties of identifyOutliers and correctOutliers.                     *)

\* the 0-based positions whose value for the field is numeric
NumericPositions(data, field) ==
  {i \in 0..(Len(data) - 1) : IsNumeric(Get(At(data, i), field))}

\* the value at the position, as a number
ValueAt(data, field, i) == ToNumber(Get(At(data, i), field))

\* the numeric values of the field, sorted ascending
RECURSIVE ValuesOf(_, _, _)
ValuesOf(data, field, positions) ==
  IF positions = {} THEN <<>>
  ELSE LET i == CHOOSE x \in positions : TRUE
       IN InsertNum(ValuesOf(data, field, positions \ {i}), ValueAt(data, field, i))

\* the positions outside the fence built from Q1 = sorted[floor(0.25 n)]
\* and Q3 = sorted[floor(0.75 n)]
OutsideFence(data, field) ==
  LET positions == NumericPositions(data, field)
      sorted == ValuesOf(data, field, positions)
      n == Len(sorted)
      Q1 == sorted[(n \div 4) + 1]
      Q3 == sorted[((3 * n) \div 4) + 1]
      IQR == SubNum(Q3, Q1)
  IN {i \in positions :
        \/ LessNum(ValueAt(data, field, i), SubNum(Q1, TimesOneAndAHalf(IQR)))
        \/ LessNum(AddNum(Q3, TimesOneAndAHalf(IQR)), ValueAt(data, field, i))}

\* the sequence lists the set in ascending order
ListsAscending(indices, set) ==
  /\ Range(indices) = set
  /\ Len(indices) = Cardinality(set)
  /\ \A i \in 1..(Len(indices) - 1) : indices[i] < indices[i + 1]

\* C5: identifyOutliers returns, in ascending order, exactly the indices
\* whose value is numeric and lies strictly outside the fence
\* [Q1 - 1.5 IQR, Q3 + 1.5 IQR], the quartiles being taken at positions
\* floor(0.25 n) and floor(0.75 n) of the n sorted numeric values.
C5_ExactlyOutsideFence ==
  Returned("identifyOutliers")
  => ListsAscending(ret, OutsideFence(args.data, args.field))

\* the indices of the data that the list does not flag
Unflagged(data, outlierIndices) ==
  {j \in 0..(Len(data) - 1) : j \notin Range(outlierIndices)}

Maximum(set) == CHOOSE x \in set : \A y \in set : y <= x
Minimum(set) == CHOOSE x \in set : \A y \in set : x <= y

\* C6: a flagged index with unflagged indices on both sides receives the
\* mean of the values at the nearest of them, with one on the lower side
\* only the value of the nearest predecessor, with one on the higher side
\* only the value of the nearest successor.
C6_NeighbourValues ==
  Returned("correctOutliers")
  => \A i \in Range(args.outlierIndices) \cap (0..(Len(args.data) - 1)) :
       LET lower == {j \in Unflagged(args.data, args.outlierIndices) : j < i}
           higher == {j \in Unflagged(args.data, args.outlierIndices) : j > i}
           value == [j \in 0..(Len(args.data) - 1) |-> Get(At(args.data, j), args.field)]
           new == Get(At(ret, i), args.field)
       IN /\ (lower # {} /\ higher # {}
                /\ IsNumeric(value[Maximum(lower)]) /\ IsNumeric(value[Minimum(higher)]))
             => new = DivNum(AddNum(ToNumber(value[Maximum(lower)]),
                                    ToNumber(value[Minimum(higher)])), IntNum(2))
          /\ (lower # {} /\ higher = {}) => new = value[Maximum(lower)]
          /\ (lower = {} /\ higher # {}) => new = value[Minimum(higher)]

\* [10, OUTLIER, 20] with index 1 flagged gives 15
C6_Witness ==
  /\ Returned("correctOutliers")
  /\ args.outlierIndices = <<1>>
  /\ Len(args.data) = 3
  /\ Get(args.data[1], "PH_58") = IntNum(10)
  /\ Get(args.data[2], "PH_58") = IntNum(999)
  /\ Get(args.data[3], "PH_58") = IntNum(20)
  /\ Get(ret[2], "PH_58") = IntNum(15)

-----------------------------------------------------------------------------
(* Dates.  A Date is its time value in minutes since 1970-01-01T00:00Z,    *)
(* NaN for an invalid date.  The language fixes the meaning of the ISO     *)
(* forms only: every other text is parsed as the implementation chooses,   *)
(* which the model leaves open through env.legacy.  env.tz is the          *)
(* offset of the local time zone, in minutes east of UTC.                  *)

IsLeapYear(y) == (y % 4 = 0 /\ y % 100 # 0) \/ y % 400 = 0

DaysInMonth(y, m) ==
  IF m = 2 THEN (IF IsLeapYear(y) THEN 29 ELSE 28)
  ELSE IF m \in {4, 6, 9, 11} THEN 30 ELSE 31

\* days from 1970-01-01 to the civil date y-m-d
DaysFromCivil(y, m, d) ==
  LET yy == IF m <= 2 THEN y - 1 ELSE y
      era == yy \div 400
      yoe == yy - era * 400
      mp == (m + 9) % 12
      doy == (153 * mp + 2) \div 5 + d - 1
      doe == yoe * 365 + yoe \div 4 - yoe \div 100 + doy
  IN era * 146097 + doe - 719468

\* the text is n digits
IsDigitsOfLength(s, lengths) == Len(s) \in lengths /\ AllDigits(s)

\* HH:MM, as minutes of the day, or -1
ClockMinutes(s) ==
  LET parts == Split(s, ":")
  IN IF /\ Len(parts) = 2
        /\ IsDigitsOfLength(parts[1], {2})
        /\ IsDigitsOfLength(parts[2], {2})
        /\ ParseDigits(parts[1]) < 24
        /\ ParseDigits(parts[2]) < 60
     THEN 60 * ParseDigits(parts[1]) + ParseDigits(parts[2])
     ELSE -1

\* minutes of the civil date at 00:00 UTC, or -1 when there is no such date
CivilMinutes(y, m, d) ==
  IF m \in 1..12 /\ d >= 1 /\ d <= DaysInMonth(y, m)
  THEN 1440 * DaysFromCivil(y, m, d) ELSE -1

\* YYYY-MM-DD, the ISO date-only form: midnight UTC
IsoDateMinutes(s) ==
  LET parts == Split(s, "-")
  IN IF /\ Len(parts) = 3
        /\ IsDigitsOfLength(parts[1], {4})
        /\ IsDigitsOfLength(parts[2], {2})
        /\ IsDigitsOfLength(parts[3], {2})
     THEN CivilMinutes(ParseDigits(parts[1]), ParseDigits(parts[2]), ParseDigits(parts[3]))
     ELSE -1

\* a date outside the ISO forms, as the lenient parsers read it:
\* Y-M-D or M/D/Y, digits not padded, at 00:00 of the day
LegacyDateMinutes(s) ==
  LET dashed == Split(s, "-")
      slashed == Split(s, "/")
  IN IF /\ Len(dashed) = 3
        /\ IsDigitsOfLength(dashed[1], {4})
        /\ IsDigitsOfLength(dashed[2], {1, 2})
        /\ IsDigitsOfLength(dashed[3], {1, 2})
     THEN CivilMinutes(ParseDigits(dashed[1]), ParseDigits(dashed[2]), ParseDigits(dashed[3]))
     ELSE IF /\ Len(slashed) = 3
             /\ IsDigitsOfLength(slashed[1], {1, 2})
             /\ IsDigitsOfLength(slashed[2], {1, 2})
             /\ IsDigitsOfLength(slashed[3], {4})
     THEN CivilMinutes(ParseDigits(slashed[3]), ParseDigits(slashed[1]), ParseDigits(slashed[2]))
     ELSE -1

\* new Date(text).getTime()
NewDate(text, env) ==
  LET T == IndexOf(text, "T")
      sp == IndexOf(text, " ")
  IN IF IsoDateMinutes(text) >= 0 THEN IntNum(IsoDateMinutes(text))
     ELSE IF /\ T > 0
             /\ IsoDateMinutes(SubSeq(text, 1, T - 1)) >= 0
             /\ ClockMinutes(SubSeq(text, T + 1, Len(text))) >= 0
     THEN \* ISO date-time without a zone: local time
          IntNum(IsoDateMinutes(SubSeq(text, 1, T - 1))
                   + ClockMinutes(SubSeq(text, T + 1, Len(text))) - env.tz)
     ELSE IF env.legacy = "invalid" THEN NaN
     ELSE IF sp = 0 /\ LegacyDateMinutes(text) >= 0
     THEN IntNum(LegacyDateMinutes(text) - env.tz)
     ELSE IF /\ sp > 0
             /\ LegacyDateMinutes(SubSeq(text, 1, sp - 1)) >= 0
             /\ ClockMinutes(SubSeq(text, sp + 1, Len(text))) >= 0
     THEN IntNum(LegacyDateMinutes(SubSeq(text, 1, sp - 1))
                   + ClockMinutes(SubSeq(text, sp + 1, Len(text))) - env.tz)
     ELSE NaN

\* a >= b and a <= b on time values; false when one is NaN
DateGeq(a, b) == ~IsNaN(a) /\ ~IsNaN(b) /\ ~LessNum(a, b)
DateLeq(a, b) == ~IsNaN(a) /\ ~IsNaN(b) /\ ~LessNum(b, a)

-----------------------------------------------------------------------------
(* Order of strings: by the code units of their characters.                *)

\* the printable ASCII characters in code order, from code 32 on; the
\* double quote (34), the backslash (92) and the grave accent (96) occur in
\* no text of the model
AsciiLow == " !"
AsciiMid == "#$%&'()*+,-./0123456789:;<=>?@ABCDEFGHIJKLMNOPQRSTUVWXYZ["
AsciiHigh == "]^_"
AsciiLetters == "abcdefghijklmnopqrstuvwxyz{|}~"

CharCode(c) ==
  IF IndexOf(AsciiLow, c) > 0 THEN 31 + IndexOf(AsciiLow, c)
  ELSE IF IndexOf(AsciiMid, c) > 0 THEN 34 + IndexOf(AsciiMid, c)
  ELSE IF IndexOf(AsciiHigh, c) > 0 THEN 92 + IndexOf(AsciiHigh, c)
  ELSE 96 + IndexOf(AsciiLetters, c)

RECURSIVE StrLess(_, _)
StrLess(a, b) ==
  IF Len(b) = 0 THEN FALSE
  ELSE IF Len(a) = 0 THEN TRUE
  ELSE IF Char(a, 1) # Char(b, 1) THEN CharCode(Char(a, 1)) < CharCode(Char(b, 1))
  ELSE StrLess(Tail(a), Tail(b))

\* [...new Set(dates)]: the distinct elements in order of first occurrence
RECURSIVE Unique(_)
Unique(dates) ==
  IF Len(dates) = 0 THEN <<>>
  ELSE LET rest == Unique(SubSeq(dates, 1, Len(dates) - 1))
           last == dates[Len(dates)]
       IN IF last \in Range(rest) THEN rest ELSE Append(rest, last)

\* Array.prototype.sort() without a comparator, on strings
RECURSIVE InsertStr(_, _)
InsertStr(sorted, x) ==
  IF Len(sorted) = 0 THEN <<x>>
  ELSE IF StrLess(x, sorted[1]) THEN <<x>> \o sorted
  ELSE <<sorted[1]>> \o InsertStr(Tail(sorted), x)

RECURSIVE SortStr(_)
SortStr(strings) ==
  IF Len(strings) = 0 THEN <<>>
  ELSE InsertStr(SortStr(SubSeq(strings, 1, Len(strings) - 1)), strings[Len(strings)])

-----------------------------------------------------------------------------
(* filterByTimeRange (utils/dataProcessing.ts).                            *)

\* a custom branch taken as soon as the start is given
CustomRange_StartOnly(timeRange, customStartDate, customEndDate) ==
  timeRange = "custom" /\ Truthy(customStartDate)

\* the custom branch is taken: timeRange === 'custom' && start && end
CustomRange(timeRange, customStartDate, customEndDate) ==
  timeRange = "custom" /\ Truthy(customStartDate) /\ Truthy(customEndDate)

\* item.Time.split(' ') is a TypeError when Time is no string; the custom
\* and the day branch evaluate it for every item
FilterThrows(data, timeRange, customStartDate, customEndDate) ==
  /\ CustomRange(timeRange, customStartDate, customEndDate) \/ timeRange = "day"
  /\ \E i \in 1..Len(data) : Get(data[i], "Time").t # "string"

\* new Date(item.Time.split(' ')[0].split('/').reverse().join('-'))
ItemDate(item, env) ==
  NewDate(Join(Reverse(Split(DateToken(Get(item, "Time").s), "/")), "-"), env)

\* LastDate without the sort: the date token that occurs last for the
\* first time
LastDate_Unsorted(data) ==
  LET dates == [i \in 1..Len(data) |-> DateToken(Get(data[i], "Time").s)]
      uniqueDates == Unique(dates)
  IN uniqueDates[Len(uniqueDates)]

\* the last of the sorted distinct date tokens
LastDate(data) ==
  LET dates == [i \in 1..Len(data) |-> DateToken(Get(data[i], "Time").s)]
      uniqueDates == SortStr(Unique(dates))
  IN uniqueDates[Len(uniqueDates)]

filterByTimeRange(data, timeRange, customStartDate, customEndDate, env) ==
  IF CustomRange(timeRange, customStartDate, customEndDate)
  THEN LET startDate == NewDate(JsToString(customStartDate), env)
           endDate == NewDate(JsToString(customEndDate), env)
       IN SelectSeq(data, LAMBDA item :
            /\ DateGeq(ItemDate(item, env), startDate)
            /\ DateLeq(ItemDate(item, env), endDate))
  ELSE IF timeRange = "day"
  THEN IF Len(data) = 0 THEN <<>>
       ELSE SelectSeq(data, LAMBDA item : StartsWith(Get(item, "Time").s, LastDate(data)))
  ELSE data

-----------------------------------------------------------------------------
(* Inputs of filterByTimeRange: records of four dates, one of them written *)
(* without the leading zero of the day and one with a T between date and   *)
(* time; the custom bounds are what a date input delivers, a YYYY-MM-DD    *)
(* text or the empty text, or are not given.                               *)

FilterTimes ==
  {"31/12/2023 23:30", "01/01/2024 00:00", "01/01/2024 00:30",
   "02/01/2024 00:00", "3/01/2024 00:00", "02/01/2024T00:00"}

FilterRecord(Time) ==
  <<[k |-> "Time", v |-> Str(Time)], [k |-> "PH_58", v |-> IntNum(7)]>>

CustomDates == {undefined, Str(""), Str("2024-01-01"), Str("2024-01-03")}

FilterInputs ==
  {[fn |-> "filterByTimeRange", data |-> [i \in 1..Len(times) |-> FilterRecord(times[i])],
    timeRange |-> timeRange, customStartDate |-> customStartDate,
    customEndDate |-> customEndDate] :
     times \in SeqsUpTo(FilterTimes, MaxFilter),
     timeRange \in {"day", "week", "custom"},
     customStartDate \in CustomDates, customEndDate \in CustomDates}

\* the hosts the code may run on: their time zone, and what their Date
\* makes of a text outside the ISO forms
Envs == {[tz |-> tz, legacy |-> legacy] : tz \in {-60, 60}, legacy \in {"invalid", "local"}}

\* the modes day and week never read the custom bounds, so the bounds are
\* varied for the mode custom only
InitFilter ==
  /\ pc = "ready"
  /\ args \in {a \in FilterInputs :
                 a.timeRange # "custom"
                   => a.customStartDate = undefined /\ a.customEndDate = undefined}
  /\ ret = NotCalled
  /\ error = "none"
  /\ callerData = args.data
  /\ page = MountedPage
  /\ server = StartedServer

CallFilterByTimeRange ==
  /\ pc = "ready"
  /\ args.fn = "filterByTimeRange"
  /\ \E env \in Envs :
       IF FilterThrows(args.data, args.timeRange, args.customStartDate, args.customEndDate)
       THEN ret' = undefined /\ error' = "TypeError"
       ELSE ret' = filterByTimeRange(args.data, args.timeRange, args.customStartDate,
                                     args.customEndDate, env)
            /\ error' = "none"
  /\ pc' = "done"
  /\ UNCHANGED <<args, callerData, page, server>>

NextFilter == CallFilterByTimeRange

SpecFilter == InitFilter /\ [][NextFilter]_vars

-----------------------------------------------------------------------------
(* The four functions of utils/dataProcessing.ts, the parser and the       *)
(* duplicate removal of the upload route together.                         *)

Init == InitParse \/ InitAgg \/ InitOutlier \/ InitFilter

Next == NextParse \/ NextAgg \/ NextOutlier \/ NextFilter

Spec == Init /\ [][Next]_vars

\* one of the four core functions was called with no records
CalledOnEmpty(fn) == pc = "done" /\ args.fn = fn /\ args.data = <<>>

-----------------------------------------------------------------------------
(* Properties of filterByTimeRange.                                        *)

\* the date tokens of the records
DateTokens(data) == {DateToken(TimeOf(data[i]).s) : i \in 1..Len(data)}

\* the Time has the form DD/MM/YYYY HH:MM and names a date of the calendar
IsDayMonthYearTime(Time) ==
  LET parts == Split(Time, " ")
      date == Split(parts[1], "/")
  IN /\ Len(parts) = 2
     /\ ClockMinutes(parts[2]) >= 0
     /\ Len(date) = 3
     /\ IsDigitsOfLength(date[1], {2})
     /\ IsDigitsOfLength(date[2], {2})
     /\ IsDigitsOfLength(date[3], {4})
     /\ CivilMinutes(ParseDigits(date[3]), ParseDigits(date[2]), ParseDigits(date[1])) >= 0

\* the day of the calendar that a DD/MM/YYYY token names, counted in days
CalendarDay(token) ==
  LET date == Split(token, "/")
  IN DaysFromCivil(ParseDigits(date[3]), ParseDigits(date[2]), ParseDigits(date[1]))

\* the records of the data whose date token is the given one, in input order
RecordsOfToken(data, token) ==
  SelectSeq(data, LAMBDA item : DateToken(TimeOf(item).s) = token)

\* C11: for records in the DD/MM/YYYY HH:MM format that span at least two
\* dates, the mode day returns only the records of the most recent
\* calendar date of the dataset.
C11_MostRecentDay ==
  (Returned("filterByTimeRange") /\ args.timeRange = "day"
     /\ \A i \in 1..Len(args.data) : IsDayMonthYearTime(TimeOf(args.data[i]).s)
     /\ Cardinality(DateTokens(args.data)) >= 2)
  => LET latest == CHOOSE t \in DateTokens(args.data) :
                     \A u \in DateTokens(args.data) : CalendarDay(u) <= CalendarDay(t)
     IN \A j \in 1..Len(ret) : DateToken(TimeOf(ret[j]).s) = latest

\* the token that no token of the data exceeds in the order of strings
GreatestToken(data) ==
  CHOOSE t \in DateTokens(data) : \A u \in DateTokens(data) : ~StrLess(t, u)

\* C12: the mode day returns, in input order, exactly the records whose
\* date token is the lexicographically greatest date token of the data; the
\* prefix match on Time lets in no record with another date token.
C12_GreatestTokenRecords ==
  (Returned("filterByTimeRange") /\ args.timeRange = "day" /\ Len(args.data) > 0)
  => ret = RecordsOfToken(args.data, GreatestToken(args.data))

\* a call in mode day on records of which one has a date token that is a
\* proper prefix of the greatest token, and is left out
C12_Witness ==
  /\ Returned("filterByTimeRange")
  /\ args.timeRange = "day"
  /\ Len(args.data) = 3
  /\ \E i \in 1..3 :
       LET token == DateToken(TimeOf(args.data[i]).s)
       IN /\ token # GreatestToken(args.data)
          /\ StartsWith(GreatestToken(args.data), token)
  /\ Len(ret) = 1

\* the token names a day of the calendar as day/month/year, the day and the
\* month with or without a leading zero
IsDayMonthYear(token) ==
  LET date == Split(token, "/")
  IN /\ Len(date) = 3
     /\ IsDigitsOfLength(date[1], {1, 2})
     /\ IsDigitsOfLength(date[2], {1, 2})
     /\ IsDigitsOfLength(date[3], {4})
     /\ CivilMinutes(ParseDigits(date[3]), ParseDigits(date[2]), ParseDigits(date[1])) >= 0

\* the day that a YYYY-MM-DD bound names, counted in days
BoundDay(text) ==
  LET date == Split(text, "-")
  IN DaysFromCivil(ParseDigits(date[1]), ParseDigits(date[2]), ParseDigits(date[3]))

\* the record is dated within [start, end], both ends included
WithinRange(item, start, end) ==
  LET token == DateToken(TimeOf(item).s)
  IN /\ IsDayMonthYear(token)
     /\ BoundDay(start) <= CalendarDay(token)
     /\ CalendarDay(token) <= BoundDay(end)

\* C13: the mode custom with both bounds given returns without an error,
\* in input order, exactly the records dated within [start, end]; that is
\* the empty sequence when no record qualifies.
C13_CustomRangeInclusive ==
  (pc = "done" /\ args.fn = "filterByTimeRange" /\ args.timeRange = "custom"
     /\ Truthy(args.customStartDate) /\ Truthy(args.customEndDate))
  => /\ error = "none"
     /\ ret = SelectSeq(args.data, LAMBDA item :
                WithinRange(item, args.customStartDate.s, args.customEndDate.s))

-----------------------------------------------------------------------------
(* Further properties of identifyOutliers and correctOutliers.             *)

\* the 0-based positions of the set in ascending order
RECURSIVE Ascending(_)
Ascending(set) ==
  IF set = {} THEN <<>>
  ELSE Append(Ascending(set \ {Maximum(set)}), Maximum(set))

\* C14: a record whose value for the field is not a number is never
\* returned as an outlier and takes no part in Q1 and Q3: the result is
\* what the detection returns for the records with a numeric value alone,
\* given as positions of the original data.
C14_NonNumericDiscarded ==
  Returned("identifyOutliers")
  => LET kept == Ascending(NumericPositions(args.data, args.field))
         numeric == [j \in 1..Len(kept) |-> At(args.data, kept[j])]
         found == identifyOutliers(numeric, args.field)
     IN /\ \A j \in 1..Len(ret) : ret[j] \in NumericPositions(args.data, args.field)
        /\ ret = [j \in 1..Len(found) |-> kept[found[j] + 1]]

\* every index of the list is a position of the data
IndicesInRange(data, outlierIndices) ==
  \A p \in 1..Len(outlierIndices) :
    outlierIndices[p] >= 0 /\ outlierIndices[p] < Len(data)

\* the two records agree on every field but the named one
SameOtherFields(a, b, field) ==
  /\ {ObjectKeys(a)[j] : j \in 1..Len(a)} \ {field} = {ObjectKeys(b)[j] : j \in 1..Len(b)} \ {field}
  /\ \A j \in 1..Len(a) : a[j].k # field => Get(b, a[j].k) = a[j].v

\* C15: for indices within 0..length-1, the result has the length of the
\* input, every unflagged record is the input record, every flagged record
\* keeps all its fields but the named one, and the array handed in is as it
\* was.
C15_OnlyFlaggedFieldChanges ==
  (Returned("correctOutliers") /\ IndicesInRange(args.data, args.outlierIndices))
  => /\ Len(ret) = Len(args.data)
     /\ \A i \in 0..(Len(args.data) - 1) :
          IF i \in Range(args.outlierIndices)
          THEN /\ SameOtherFields(At(args.data, i), At(ret, i), args.field)
               /\ TimeOf(At(ret, i)) = TimeOf(At(args.data, i))
          ELSE At(ret, i) = At(args.data, i)
     /\ callerData = args.data

\* three records of which the second is flagged and receives a new value
C15_Witness ==
  /\ Returned("correctOutliers")
  /\ Len(args.data) = 3
  /\ args.outlierIndices = <<1>>
  /\ Get(ret[2], "PH_58") # Get(args.data[2], "PH_58")
  /\ Get(ret[2], "PH_59") = IntNum(6)
  /\ ret[1] = args.data[1] /\ ret[3] = args.data[3]
  /\ callerData = args.data

\* the flagged positions of the data that have no unflagged position on
\* either side
Isolated(data, outlierIndices) ==
  {i \in Range(outlierIndices) \cap (0..(Len(data) - 1)) :
     Unflagged(data, outlierIndices) = {}}

\* the call returned and left the field of every isolated position as it was
IsolatedUntouched ==
  /\ error = "none"
  /\ \A i \in Isolated(args.data, args.outlierIndices) :
       Get(At(ret, i), args.field) = Get(At(args.data, i), args.field)

C17_FewValuesValidIndices ==
  (pc = "done" /\ args.fn = "identifyOutliers"
     /\ Cardinality(NumericPositions(args.data, args.field)) < 4)
  => /\ error = "none"
     /\ \A j \in 1..Len(ret) : ret[j] \in 0..(Len(args.data) - 1)
     /\ \A i, j \in 1..Len(ret) : i # j => ret[i] # ret[j]

\* four records of which three hold a number: nothing is flagged
C17_Witness ==
  /\ Returned("identifyOutliers")
  /\ Len(args.data) = 4
  /\ Cardinality(NumericPositions(args.data, args.field)) = 3
  /\ \E i \in 0..3 : Get(At(args.data, i), args.field) = undefined
  /\ ret = <<>>

-----------------------------------------------------------------------------
(* The setup page (pages/SetupPage.tsx).  A handler runs to its end and    *)
(* the state updates it queued are applied together; the filter effect     *)
(* runs after a render that changed rawData, timeRange or a custom date,   *)
(* and before the next event is handled.                                   *)

MaxManual == 2      \* manual-data entries saved on the page

\* the keys of the first record, other than Time, whose value is a number
availableVariables(rawData) ==
  IF Len(rawData) > 0
  THEN SelectSeq(ObjectKeys(rawData[1]),
                 LAMBDA key : key # "Time" /\ typeof(Get(rawData[1], key)) = "number")
  ELSE <<>>

\* useEffect(..., [rawData, timeRange, customStartDate, customEndDate])
filterEffect(current, env) ==
  IF Len(current.rawData) > 0
  THEN [current EXCEPT
          !.processedData = filterByTimeRange(current.rawData, current.timeRange,
                              current.customStartDate, current.customEndDate, env),
          !.effectPending = FALSE]
  ELSE [current EXCEPT !.effectPending = FALSE]

\* the range "week" has filterByTimeRange build no Date: any host does
AnyEnv == CHOOSE env \in Envs : TRUE

\* handleUploadSuccess that leaves processedData to the filter effect
handleUploadSuccess_EffectOnly(current, weekData) ==
  IF AggregatesThrow(weekData.iotData)
  THEN [current EXCEPT !.rawData = weekData.iotData, !.effectPending = TRUE]
  ELSE [current EXCEPT
          !.rawData = weekData.iotData,
          !.aggregates = calculateAggregates(weekData.iotData),
          !.timeRange = "week",
          !.customStartDate = weekData.start_date,
          !.customEndDate = weekData.end_date,
          !.fileUploaded = TRUE,
          !.effectPending = TRUE]

\* handleUploadSuccess(weekData); setRawData is queued before
\* calculateAggregates is called, so it is applied even when that call throws
handleUploadSuccess(current, weekData) ==
  IF AggregatesThrow(weekData.iotData)
  THEN [current EXCEPT !.rawData = weekData.iotData, !.effectPending = TRUE]
  ELSE [current EXCEPT
          !.rawData = weekData.iotData,
          !.aggregates = calculateAggregates(weekData.iotData),
          !.timeRange = "week",
          !.customStartDate = weekData.start_date,
          !.customEndDate = weekData.end_date,
          !.processedData = filterByTimeRange(weekData.iotData, "week",
                              weekData.start_date, weekData.end_date, AnyEnv),
          !.fileUploaded = TRUE,
          !.effectPending = TRUE]

\* handleSaveManualData(data)
handleSaveManualData(current, data) ==
  [current EXCEPT !.manualData = Append(@, data)]

\* handleCorrectOutliers that leaves the aggregates as they were
handleCorrectOutliers_StaleAggregates(current, variable, env) ==
  IF Len(current.rawData) = 0 THEN current
  ELSE The({IF Len(outlierIndices) = 0 THEN current
            ELSE The({[current EXCEPT
                         !.rawData = correctedData,
                         !.processedData =
                            filterByTimeRange(correctedData, current.timeRange,
                              current.customStartDate, current.customEndDate, env),
                         !.effectPending = TRUE] :
                      correctedData \in
                        {correctOutliers(current.rawData, variable, outlierIndices)}}) :
            outlierIndices \in {identifyOutliers(current.rawData, variable)}})

\* handleCorrectOutliers(variable): outlierIndices and correctedData are
\* computed once and then used
handleCorrectOutliers(current, variable, env) ==
  IF Len(current.rawData) = 0 THEN current
  ELSE The({IF Len(outlierIndices) = 0 THEN current
            ELSE The({[current EXCEPT
                         !.rawData = correctedData,
                         !.processedData =
                            filterByTimeRange(correctedData, current.timeRange,
                              current.customStartDate, current.customEndDate, env),
                         !.aggregates = calculateAggregates(correctedData),
                         !.effectPending = TRUE] :
                      correctedData \in
                        {correctOutliers(current.rawData, variable, outlierIndices)}}) :
            outlierIndices \in {identifyOutliers(current.rawData, variable)}})

\* onClick={() => setTimeRange(...)}: a render, and with it the effect,
\* follows only when the value changes
setTimeRange(current, value) ==
  [current EXCEPT !.timeRange = value,
                  !.effectPending = @ \/ value # current.timeRange]

\* onChange={(e) => setCustomStartDate(e.target.value)}
setCustomStartDate(current, value) ==
  [current EXCEPT !.customStartDate = value,
                  !.effectPending = @ \/ value # current.customStartDate]

\* onChange={(e) => setCustomEndDate(e.target.value)}
setCustomEndDate(current, value) ==
  [current EXCEPT !.customEndDate = value,
                  !.effectPending = @ \/ value # current.customEndDate]

-----------------------------------------------------------------------------
(* Events of the page: the weeks an upload can deliver (rows of the        *)
(* server, whose Time is text and whose values are numbers, text or null), *)
(* the variable selected for correction, the values of the date inputs.    *)

PageRecord(Time, value) ==
  <<[k |-> "Time", v |-> Str(Time)], [k |-> "PH_58", v |-> value],
    [k |-> "PH_59", v |-> IntNum(6)]>>

PageTimes ==
  <<"01/01/2024 23:00", "01/01/2024 23:30", "02/01/2024 00:00", "02/01/2024 00:30">>

PageData(values) == [i \in 1..Len(values) |-> PageRecord(PageTimes[i], values[i])]

PageValues ==
  {<<>>,
   <<IntNum(-5), IntNum(10), IntNum(10), IntNum(10)>>,
   <<Str("10"), Str("20"), Str("999"), Str("10")>>,
   <<IntNum(10), null, IntNum(10), IntNum(10)>>,
   <<IntNum(10), IntNum(10), IntNum(10), IntNum(999)>>}

WeekDatas ==
  {[iotData |-> PageData(values), start_date |-> Str("01/01/2024 00:00"),
    end_date |-> Str("07/01/2024 23:30")] : values \in PageValues}

\* the options of the select the correction reads its variable from; with
\* no option its value is the empty text
OutlierVariables(rawData) ==
  IF Len(availableVariables(rawData)) = 0 THEN {""}
  ELSE Range(availableVariables(rawData))

DateInputs == {Str(""), Str("2024-01-01"), Str("2024-01-02")}

ManualEntries == {[pumpDuration |-> IntNum(1), notes |-> Str("")]}

InitPage ==
  /\ pc = "page"
  /\ args = NotCalled
  /\ ret = NotCalled
  /\ error = "none"
  /\ callerData = undefined
  /\ page = MountedPage
  /\ server = StartedServer

FilterEffect ==
  /\ pc = "page"
  /\ page.effectPending
  /\ \E env \in Envs : page' = filterEffect(page, env)
  /\ UNCHANGED <<pc, args, ret, error, callerData, server>>

HandleUploadSuccess ==
  /\ pc = "page"
  /\ ~page.effectPending
  /\ \E weekData \in WeekDatas : page' = handleUploadSuccess(page, weekData)
  /\ UNCHANGED <<pc, args, ret, error, callerData, server>>

HandleCorrectOutliers ==
  /\ pc = "page"
  /\ ~page.effectPending
  /\ page.fileUploaded
  /\ \E variable \in OutlierVariables(page.rawData), env \in Envs :
        page' = handleCorrectOutliers(page, variable, env)
  /\ UNCHANGED <<pc, args, ret, error, callerData, server>>

HandleSaveManualData ==
  /\ pc = "page"
  /\ ~page.effectPending
  /\ Len(page.manualData) < MaxManual
  /\ \E data \in ManualEntries : page' = handleSaveManualData(page, data)
  /\ UNCHANGED <<pc, args, ret, error, callerData, server>>

SetTimeRange ==
  /\ pc = "page"
  /\ ~page.effectPending
  /\ \E value \in {"day", "week", "custom"} : page' = setTimeRange(page, value)
  /\ UNCHANGED <<pc, args, ret, error, callerData, server>>

SetCustomStartDate ==
  /\ pc = "page"
  /\ ~page.effectPending
  /\ \E value \in DateInputs : page' = setCustomStartDate(page, value)
  /\ UNCHANGED <<pc, args, ret, error, callerData, server>>

SetCustomEndDate ==
  /\ pc = "page"
  /\ ~page.effectPending
  /\ \E value \in DateInputs : page' = setCustomEndDate(page, value)
  /\ UNCHANGED <<pc, args, ret, error, callerData, server>>

NextPage ==
  \/ FilterEffect
  \/ HandleUploadSuccess
  \/ HandleCorrectOutliers
  \/ HandleSaveManualData
  \/ SetTimeRange
  \/ SetCustomStartDate
  \/ SetCustomEndDate

SpecPage == InitPage /\ [][NextPage]_vars

-----------------------------------------------------------------------------
(* Properties of the setup page.                                           *)

\* the record sets an upload can deliver
UploadedSets == {weekData.iotData : weekData \in WeekDatas}

\* the Time values of the records, in order
TimesOf(data) == [i \in 1..Len(data) |-> Get(data[i], "Time")]

\* C18 as stated: in every state of the page, whatever events led to it,
\* the aggregates equal calculateAggregates of the current rawData.
C18_AggregatesOfRawData ==
  pc = "page" => page.aggregates = calculateAggregates(page.rawData)

\* C18, amended: once an upload has succeeded, the aggregates equal
\* calculateAggregates of the current rawData after every event.
C18_AggregatesOfRawDataOnceUploaded ==
  (pc = "page" /\ page.fileUploaded)
    => page.aggregates = calculateAggregates(page.rawData)

\* C18 witness: an uploaded record set was changed by a correction, and
\* the aggregates are those of the corrected records.
C18_Witness ==
  /\ pc = "page"
  /\ page.fileUploaded
  /\ page.rawData \notin UploadedSets
  /\ page.timeRange = "custom"
  /\ page.aggregates = calculateAggregates(page.rawData)
  /\ \E data \in UploadedSets :
        /\ Len(data) = Len(page.rawData)
        /\ page.aggregates # calculateAggregates(data)

\* the rawData of the two states of a step hold the same number of records
\* with the same Time values in the same order
SameRecordSequence ==
  /\ Len(page.rawData') = Len(page.rawData)
  /\ TimesOf(page.rawData') = TimesOf(page.rawData)

\* C19: a step of the page that is a time-range or custom-date change, an
\* outlier correction, a manual-data save or a run of the filter effect
\* leaves the number of records of rawData and their sequence of Time values
\* unchanged; a step that changes either is an upload, after which rawData
\* is the uploaded record set as a whole.
C19_RecordsOnlyReplacedByUpload ==
  [][~SameRecordSequence
       => /\ HandleUploadSuccess
          /\ \E weekData \in WeekDatas : page.rawData' = weekData.iotData
          /\ ~(SetTimeRange \/ SetCustomStartDate \/ SetCustomEndDate
                 \/ HandleCorrectOutliers \/ HandleSaveManualData \/ FilterEffect)]_vars

\* C19 witness: the records of an upload after a correction, a manual-data
\* save and a change of the time range: values differ from the upload, the
\* Time values are those of the upload.
C19_Witness ==
  /\ pc = "page"
  /\ page.rawData \notin UploadedSets
  /\ Len(page.manualData) > 0
  /\ page.timeRange = "day"
  /\ \E data \in UploadedSets : TimesOf(data) = TimesOf(page.rawData)

-----------------------------------------------------------------------------
(* Week saves on the server (server.js): POST /api/weeks and the CSV       *)
(* upload.  Both hand their statements to the one database connection db.  *)
(* A handler queues BEGIN and the insertion of the week row; the callback  *)
(* of that insertion, which runs when the statement has been executed,     *)
(* queues the remaining insertions and COMMIT.  The connection executes    *)
(* the queued statements one at a time in the order they were handed in,   *)
(* whichever request they come from.                                       *)

MaxRequests == 2    \* week-save requests received by the server

\* generateWeekId(startDate, endDate)
generateWeekId(startDate, endDate) ==
  "week_" \o ReplaceAll(startDate, "/", "-") \o "_to_" \o ReplaceAll(endDate, "/", "-")

\* text.replace(/[\s:]/g, '-')
ReplaceSpaceColon(text) == ReplaceAll(ReplaceAll(text, " ", "-"), ":", "-")

\* the week id handleCsvUpload builds from the dates of the file
uploadWeekId(startDate, endDate) ==
  "week_" \o ReplaceSpaceColon(startDate) \o "_to_" \o ReplaceSpaceColon(endDate)

\* the week id of a request
WeekIdOf(request) ==
  IF request.route = "weeks"
  THEN generateWeekId(request.startDate.s, request.endDate.s)
  ELSE uploadWeekId(request.startDate.s, request.endDate.s)

\* a statement handed to the connection by request number req
Statement(req, sql, row) == [req |-> req, sql |-> sql, row |-> row]

NoRow == [t |-> "none"]

\* db.serialize(() => { db.run('BEGIN TRANSACTION'); db.run('INSERT INTO weeks ...', callback) })
BeginAndInsertWeek(req, request) ==
  <<Statement(req, "BEGIN", NoRow),
    Statement(req, "INSERT_WEEK",
              [id |-> WeekIdOf(request), start_date |-> request.startDate,
               end_date |-> request.endDate, data_type |-> request.dataType,
               created_at |-> "recent", req |-> req])>>

\* JSON.parse(JSON.stringify(item)) of a record of primitive values: a key
\* whose value is undefined is dropped, NaN and the infinities become null
JSONStringify(item) ==
  [i \in 1..Len(SelectSeq(item, LAMBDA e : e.v # undefined)) |->
     LET e == SelectSeq(item, LAMBDA x : x.v # undefined)[i]
     IN [k |-> e.k, v |-> IF e.v.t = "number" /\ e.v.k # "finite" THEN null ELSE e.v]]

\* the columns of a manual correction as both inserting routes fill them
CorrectionColumns(corr) ==
  [pump_duration |-> JsOr(Get(corr, "pumpDuration"), IntNum(0)),
   total_flow_ara |-> JsOr(Get(corr, "totalFlowARA"), IntNum(0)),
   total_flow_galgenkanal |-> JsOr(Get(corr, "totalFlowGalgenkanal"), IntNum(0)),
   notes |-> JsOr(Get(corr, "notes"), Str(""))]

\* iotStmt.run(weekId, time, JSON.stringify(item)) for each item
IotStatements(req, weekId, items) ==
  [n \in 1..Len(items) |->
     Statement(req, "INSERT_IOT",
               [week_id |-> weekId, time |-> JsOr(Get(items[n], "Time"), Str("")),
                data |-> JSONStringify(items[n]), req |-> req, n |-> n])]

\* corrStmt.run(weekId, ...) for each manual correction
CorrectionStatements(req, weekId, manualCorrections) ==
  [n \in 1..Len(manualCorrections) |->
     Statement(req, "INSERT_CORRECTION",
               [week_id |-> weekId, columns |-> CorrectionColumns(manualCorrections[n]),
                req |-> req, n |-> n])]

\* the rows a request inserts after its week row: POST /api/weeks inserts
\* iotData as given and the manual corrections, the upload the rows of the
\* file without those whose Time was seen before
IotItems(request) ==
  IF request.route = "weeks" THEN request.iotData
  ELSE uploadUniqueData(request.iotData, <<>>)

\* the callback of the week insertion when it succeeded
AfterWeekInserted(req, request) ==
  IotStatements(req, WeekIdOf(request), IotItems(request))
    \o (IF request.route = "weeks"
        THEN CorrectionStatements(req, WeekIdOf(request), request.manualCorrections)
        ELSE <<>>)
    \o <<Statement(req, "COMMIT", NoRow)>>

\* if (!startDate || !endDate || !dataType || !iotData) of POST /api/weeks
MissingFields(request) ==
  /\ request.route = "weeks"
  /\ \/ ~Truthy(request.startDate)
     \/ ~Truthy(request.endDate)
     \/ ~Truthy(request.dataType)

\* a request arrives and its handler runs
receive(current, request) ==
  LET req == Len(current.requests) + 1
  IN IF MissingFields(request)
     THEN [current EXCEPT !.requests = Append(@, request),
                          !.responses = Append(@, "400"),
                          !.bodies = Append(@, NoRow)]
     ELSE [current EXCEPT !.requests = Append(@, request),
                          !.responses = Append(@, "pending"),
                          !.bodies = Append(@, NoRow),
                          !.queue = @ \o BeginAndInsertWeek(req, request)]

respond(current, req, status) ==
  [current EXCEPT !.responses[req] = status]

\* the callback of a failed statement: db.run('ROLLBACK') and status 500
rollbackAndFail(current, req) ==
  respond([current EXCEPT !.queue = Append(@, Statement(req, "ROLLBACK", NoRow))],
          req, "500")

respondWith(current, req, status, body) ==
  [current EXCEPT !.responses[req] = status, !.bodies[req] = body]

\* a request other than a week save arrives: its handler hands the
\* statements to the connection
accept(current, request, statements) ==
  [current EXCEPT !.requests = Append(@, request),
                  !.responses = Append(@, "pending"),
                  !.bodies = Append(@, NoRow),
                  !.queue = @ \o statements]

\* app.delete('/api/weeks/:id')
deleteWeek(current, request) ==
  LET req == Len(current.requests) + 1
  IN accept(current, request,
            <<Statement(req, "BEGIN", NoRow),
              Statement(req, "DELETE_CORRECTIONS_OF", [week_id |-> request.id]),
              Statement(req, "DELETE_IOT_OF", [week_id |-> request.id]),
              Statement(req, "DELETE_WEEK", [id |-> request.id])>>)

\* app.post('/api/weeks/:id/corrections')
addCorrection(current, request) ==
  LET req == Len(current.requests) + 1
  IN accept(current, request, <<Statement(req, "SELECT_ID", [id |-> request.id])>>)

\* app.put('/api/weeks/:id/corrections/:correctionId')
updateCorrection(current, request) ==
  LET req == Len(current.requests) + 1
  IN accept(current, request,
            <<Statement(req, "UPDATE_CORRECTION",
                        [id |-> request.correctionId, week_id |-> request.id,
                         columns |-> CorrectionColumns(request.body)])>>)

\* app.delete('/api/weeks/:id/corrections/:correctionId')
deleteCorrection(current, request) ==
  LET req == Len(current.requests) + 1
  IN accept(current, request,
            <<Statement(req, "DELETE_CORRECTION",
                        [id |-> request.correctionId, week_id |-> request.id])>>)

\* app.get('/api/weeks/:id')
getWeek(current, request) ==
  LET req == Len(current.requests) + 1
  IN accept(current, request, <<Statement(req, "SELECT_WEEK", [id |-> request.id])>>)

\* cleanupOldData, started by the daily timer
cleanupOldData(current, request) ==
  LET req == Len(current.requests) + 1
  IN respond(accept(current, request, <<Statement(req, "SELECT_OLD_WEEKS", NoRow)>>),
             req, "timer")

\* rows.forEach(row => ...) of cleanupOldData: the three deletions for each
\* week selected (the order of the weeks does not matter to the outcome)
RECURSIVE CleanupDeletions(_, _)
CleanupDeletions(req, weekIds) ==
  IF weekIds = {} THEN <<>>
  ELSE LET weekId == CHOOSE id \in weekIds : TRUE
       IN <<Statement(req, "DELETE_CORRECTIONS_OF", [week_id |-> weekId]),
            Statement(req, "DELETE_IOT_OF", [week_id |-> weekId]),
            Statement(req, "DELETE_WEEK_QUIET", [id |-> weekId])>>
            \o CleanupDeletions(req, weekIds \ {weekId})

\* the rows of the set in the order of their ids, as a SELECT without
\* ORDER BY reads a table
RECURSIVE RowsById(_)
RowsById(rows) ==
  IF rows = {} THEN <<>>
  ELSE LET first == CHOOSE r \in rows : \A other \in rows : r.id <= other.id
       IN <<first>> \o RowsById(rows \ {first})

\* a row of manual_corrections as the object SELECT * delivers
CorrectionObject(row) ==
  <<[k |-> "id", v |-> IntNum(row.id)], [k |-> "week_id", v |-> Str(row.week_id)],
    [k |-> "pump_duration", v |-> row.pump_duration],
    [k |-> "total_flow_ara", v |-> row.total_flow_ara],
    [k |-> "total_flow_galgenkanal", v |-> row.total_flow_galgenkanal],
    [k |-> "notes", v |-> row.notes]>>

\* the body of the answer of GET /api/weeks/:id
WeekBody(week, iotRows, correctionRows) ==
  [id |-> week.id, start_date |-> week.start_date, end_date |-> week.end_date,
   data_type |-> week.data_type,
   iotData |-> [i \in 1..Len(iotRows) |-> iotRows[i].data],
   manualCorrections |-> [i \in 1..Len(correctionRows) |-> CorrectionObject(correctionRows[i])]]

\* the status of a request whose COMMIT succeeded
CommitStatus(request) == IF request.route \in {"weeks", "upload"} THEN "201" ELSE "200"

\* the body of the answer when COMMIT succeeded: the save routes answer
\* with the id of the week
CommitBody(request) ==
  IF request.route \in {"weeks", "upload"} THEN [id |-> WeekIdOf(request)] ELSE NoRow

\* the row of manual_corrections that the insertion st adds
InsertedCorrection(current, st) ==
  [id |-> current.tables.sequence.manual_corrections + 1,
   week_id |-> st.row.week_id,
   pump_duration |-> st.row.columns.pump_duration,
   total_flow_ara |-> st.row.columns.total_flow_ara,
   total_flow_galgenkanal |-> st.row.columns.total_flow_galgenkanal,
   notes |-> st.row.columns.notes,
   req |-> st.req]

\* the connection executes the statement st, the first of its queue, and
\* the callback of the statement runs.  A statement without callback that
\* fails (BEGIN inside a transaction, ROLLBACK outside one) changes nothing.
execute(current, st) ==
  LET rest == [current EXCEPT !.queue = Tail(@)]
  IN CASE st.sql = "BEGIN" ->
            IF rest.inTransaction THEN rest
            ELSE [rest EXCEPT !.inTransaction = TRUE, !.journal = rest.tables]
       [] st.sql = "INSERT_WEEK" ->
            IF \E week \in rest.tables.weeks : week.id = st.row.id
            THEN rollbackAndFail(rest, st.req)
            ELSE [rest EXCEPT
                    !.tables.weeks = @ \cup {st.row},
                    !.queue = @ \o AfterWeekInserted(st.req, rest.requests[st.req])]
       [] st.sql = "INSERT_IOT" ->
            [rest EXCEPT
               !.tables.iot_data =
                  @ \cup {[id |-> rest.tables.sequence.iot_data + 1,
                           week_id |-> st.row.week_id, time |-> st.row.time,
                           data |-> st.row.data, req |-> st.req]},
               !.tables.sequence.iot_data = @ + 1]
       [] st.sql = "INSERT_CORRECTION" ->
            [rest EXCEPT
               !.tables.manual_corrections =
                  @ \cup {InsertedCorrection(rest, st)},
               !.tables.sequence.manual_corrections = @ + 1]
       [] st.sql = "COMMIT" ->
            IF rest.inTransaction
            THEN respondWith([rest EXCEPT !.inTransaction = FALSE], st.req,
                             CommitStatus(rest.requests[st.req]),
                             CommitBody(rest.requests[st.req]))
            ELSE rollbackAndFail(rest, st.req)
       [] st.sql = "ROLLBACK" ->
            IF rest.inTransaction
            THEN [rest EXCEPT !.inTransaction = FALSE, !.tables = rest.journal]
            ELSE rest
       [] st.sql = "COMMIT_QUIET" ->
            [rest EXCEPT !.inTransaction = FALSE]
       [] st.sql = "UPDATE_WEEK" -> rest
       [] st.sql = "DELETE_CORRECTIONS_OF" ->
            [rest EXCEPT !.tables.manual_corrections =
                            {row \in @ : row.week_id # st.row.week_id}]
       [] st.sql = "DELETE_IOT_OF" ->
            [rest EXCEPT !.tables.iot_data = {row \in @ : row.week_id # st.row.week_id}]
       [] st.sql = "DELETE_WEEK_QUIET" ->
            [rest EXCEPT !.tables.weeks = {week \in @ : week.id # st.row.id}]
       [] st.sql = "DELETE_WEEK" ->
            IF \E week \in rest.tables.weeks : week.id = st.row.id
            THEN [rest EXCEPT
                    !.tables.weeks = {week \in @ : week.id # st.row.id},
                    !.queue = Append(@, Statement(st.req, "COMMIT", NoRow))]
            ELSE respond([rest EXCEPT
                            !.queue = Append(@, Statement(st.req, "ROLLBACK", NoRow))],
                         st.req, "404")
       [] st.sql = "SELECT_ID" ->
            IF \E week \in rest.tables.weeks : week.id = st.row.id
            THEN [rest EXCEPT
                    !.queue = Append(@, Statement(st.req, "INSERT_CORRECTION_ANSWERED",
                                [week_id |-> st.row.id,
                                 columns |-> CorrectionColumns(rest.requests[st.req].body)]))]
            ELSE respond(rest, st.req, "404")
       [] st.sql = "INSERT_CORRECTION_ANSWERED" ->
            respondWith([rest EXCEPT
                           !.tables.manual_corrections = @ \cup {InsertedCorrection(rest, st)},
                           !.tables.sequence.manual_corrections = @ + 1,
                           !.queue = Append(@, Statement(st.req, "UPDATE_WEEK", NoRow))],
                        st.req, "201",
                        [id |-> rest.tables.sequence.manual_corrections + 1])
       [] st.sql = "UPDATE_CORRECTION" ->
            IF \E row \in rest.tables.manual_corrections :
                 row.id = st.row.id /\ row.week_id = st.row.week_id
            THEN respond([rest EXCEPT
                            !.tables.manual_corrections =
                               {IF row.id = st.row.id /\ row.week_id = st.row.week_id
                                THEN [row EXCEPT
                                        !.pump_duration = st.row.columns.pump_duration,
                                        !.total_flow_ara = st.row.columns.total_flow_ara,
                                        !.total_flow_galgenkanal =
                                           st.row.columns.total_flow_galgenkanal,
                                        !.notes = st.row.columns.notes]
                                ELSE row : row \in @},
                            !.queue = Append(@, Statement(st.req, "UPDATE_WEEK", NoRow))],
                         st.req, "200")
            ELSE respond(rest, st.req, "404")
       [] st.sql = "DELETE_CORRECTION" ->
            IF \E row \in rest.tables.manual_corrections :
                 row.id = st.row.id /\ row.week_id = st.row.week_id
            THEN respond([rest EXCEPT
                            !.tables.manual_corrections =
                               {row \in @ : ~(row.id = st.row.id /\ row.week_id = st.row.week_id)},
                            !.queue = Append(@, Statement(st.req, "UPDATE_WEEK", NoRow))],
                         st.req, "200")
            ELSE respond(rest, st.req, "404")
       [] st.sql = "SELECT_OLD_WEEKS" ->
            IF \A week \in rest.tables.weeks : week.created_at # "old" THEN rest
            ELSE [rest EXCEPT
                    !.queue = @ \o <<Statement(st.req, "BEGIN", NoRow)>>
                                \o CleanupDeletions(st.req,
                                      {week.id : week \in
                                         {w \in rest.tables.weeks : w.created_at = "old"}})
                                \o <<Statement(st.req, "COMMIT_QUIET", NoRow)>>]
       [] st.sql = "SELECT_WEEK" ->
            IF \E week \in rest.tables.weeks : week.id = st.row.id
            THEN [rest EXCEPT
                    !.queue = Append(@, Statement(st.req, "SELECT_IOT",
                                [id |-> st.row.id,
                                 week |-> CHOOSE week \in rest.tables.weeks :
                                            week.id = st.row.id]))]
            ELSE respond(rest, st.req, "404")
       [] st.sql = "SELECT_IOT" ->
            [rest EXCEPT
               !.queue = Append(@, Statement(st.req, "SELECT_CORRECTIONS",
                           [id |-> st.row.id, week |-> st.row.week,
                            iotData |-> RowsById({row \in rest.tables.iot_data :
                                                   row.week_id = st.row.id})]))]
       [] st.sql = "SELECT_CORRECTIONS" ->
            respondWith(rest, st.req, "200",
                        WeekBody(st.row.week, st.row.iotData,
                                 RowsById({row \in rest.tables.manual_corrections :
                                             row.week_id = st.row.id})))

-----------------------------------------------------------------------------
(* Week-save requests: two weeks, one of them with dates in which neither  *)
(* route replaces a character, so that both routes build the same id.      *)

WeekItem(Time) == <<[k |-> "Time", v |-> Str(Time)], [k |-> "PH_58", v |-> Str("7")]>>

WeekDates ==
  {[startDate |-> Str("01/01/2024 00:00"), endDate |-> Str("07/01/2024 23:30")],
   [startDate |-> Str("2024-01-01"), endDate |-> Str("2024-01-07")]}

\* bodies of POST /api/weeks; the last has no dataType
PostBodies ==
  {[iotData |-> <<WeekItem("01/01/2024 00:00"), WeekItem("01/01/2024 00:30")>>,
    manualCorrections |-> <<<<[k |-> "pumpDuration", v |-> IntNum(1)]>>>>,
    dataType |-> Str("both")],
   [iotData |-> <<WeekItem("01/01/2024 00:00")>>,
    manualCorrections |-> <<>>, dataType |-> Str("both")],
   [iotData |-> <<WeekItem("01/01/2024 00:00")>>,
    manualCorrections |-> <<>>, dataType |-> undefined]}

\* parseCSVFile resolves with the header information and with no data row
\* (the branch that pushes a row needs results.length > 5, and no other
\* branch pushes)
ParsedFiles == {[iotData |-> <<>>, manualCorrections |-> <<>>, dataType |-> Str("telemetry")]}

SaveRequests ==
  {[route |-> "weeks", startDate |-> dates.startDate, endDate |-> dates.endDate,
    dataType |-> body.dataType, iotData |-> body.iotData,
    manualCorrections |-> body.manualCorrections] :
     dates \in WeekDates, body \in PostBodies}
  \cup
  {[route |-> "upload", startDate |-> dates.startDate, endDate |-> dates.endDate,
    dataType |-> file.dataType, iotData |-> file.iotData,
    manualCorrections |-> file.manualCorrections] :
     dates \in WeekDates, file \in ParsedFiles}

\* "server": the server receives week saves; "store": it receives requests
\* of every route; "client": it serves the calls of the dashboard's data
\* service
ServerModes == {"server", "store", "client"}

InitServer ==
  /\ pc = "server"
  /\ args = NotCalled
  /\ ret = NotCalled
  /\ error = "none"
  /\ callerData = undefined
  /\ page = MountedPage
  /\ server = StartedServer

ReceivePostWeeks ==
  /\ pc \in ServerModes
  /\ Len(server.requests) < MaxRequests
  /\ \E request \in SaveRequests :
        /\ request.route = "weeks"
        /\ server' = receive(server, request)
  /\ UNCHANGED <<pc, args, ret, error, callerData, page>>

ReceiveCsvUpload ==
  /\ pc \in ServerModes
  /\ Len(server.requests) < MaxRequests
  /\ \E request \in SaveRequests :
        /\ request.route = "upload"
        /\ server' = receive(server, request)
  /\ UNCHANGED <<pc, args, ret, error, callerData, page>>

ExecuteStatement ==
  /\ pc \in ServerModes
  /\ Len(server.queue) > 0
  /\ server' = execute(server, Head(server.queue))
  /\ UNCHANGED <<pc, args, ret, error, callerData, page>>

NextServer == ReceivePostWeeks \/ ReceiveCsvUpload \/ ExecuteStatement

SpecServer == InitServer /\ [][NextServer]_vars

-----------------------------------------------------------------------------
(* The server with weeks stored: requests of every route and the cleanup   *)
(* timer.                                                                  *)

StoredDates == [startDate |-> Str("2024-01-01"), endDate |-> Str("2024-01-07")]
OldDates == [startDate |-> Str("2023-01-01"), endDate |-> Str("2023-01-07")]

StoredWeekId == generateWeekId(StoredDates.startDate.s, StoredDates.endDate.s)
OldWeekId == generateWeekId(OldDates.startDate.s, OldDates.endDate.s)
NoWeekId == "week_none"

\* a ManualData object
ManualData(pumpDuration, notes) ==
  <<[k |-> "weekStartDate", v |-> Str("2024-01-01")],
    [k |-> "weekEndDate", v |-> Str("2024-01-07")],
    [k |-> "pumpDuration", v |-> IntNum(pumpDuration)],
    [k |-> "totalFlowARA", v |-> IntNum(0)],
    [k |-> "totalFlowGalgenkanal", v |-> IntNum(3)],
    [k |-> "notes", v |-> Str(notes)]>>

\* the row of a correction that an earlier request stored
StoredCorrection(id, weekId, corr) ==
  [id |-> id, week_id |-> weekId,
   pump_duration |-> CorrectionColumns(corr).pump_duration,
   total_flow_ara |-> CorrectionColumns(corr).total_flow_ara,
   total_flow_galgenkanal |-> CorrectionColumns(corr).total_flow_galgenkanal,
   notes |-> CorrectionColumns(corr).notes, req |-> 0]

\* the tables after two earlier saves: a week of this year with one record
\* and one correction, and a week created more than a year ago with one
\* record and one correction
PopulatedTables ==
  [weeks |-> {[id |-> StoredWeekId, start_date |-> StoredDates.startDate,
               end_date |-> StoredDates.endDate, data_type |-> Str("both"),
               created_at |-> "recent", req |-> 0],
              [id |-> OldWeekId, start_date |-> OldDates.startDate,
               end_date |-> OldDates.endDate, data_type |-> Str("both"),
               created_at |-> "old", req |-> 0]},
   iot_data |-> {[id |-> 1, week_id |-> OldWeekId, time |-> Str("01/01/2023 00:00"),
                  data |-> JSONStringify(WeekItem("01/01/2023 00:00")), req |-> 0],
                 [id |-> 2, week_id |-> StoredWeekId, time |-> Str("01/01/2024 00:00"),
                  data |-> JSONStringify(WeekItem("01/01/2024 00:00")), req |-> 0]},
   manual_corrections |-> {StoredCorrection(1, OldWeekId, ManualData(5, "old")),
                           StoredCorrection(2, StoredWeekId, ManualData(7, "stored"))},
   sequence |-> [iot_data |-> 2, manual_corrections |-> 2]]

PopulatedServer ==
  [StartedServer EXCEPT !.tables = PopulatedTables, !.journal = PopulatedTables]

WeekIds == {StoredWeekId, OldWeekId, NoWeekId}

InitStore ==
  /\ pc = "store"
  /\ args = NotCalled
  /\ ret = NotCalled
  /\ error = "none"
  /\ callerData = undefined
  /\ page = MountedPage
  /\ server = PopulatedServer

ReceiveDeleteWeek ==
  /\ pc = "store"
  /\ Len(server.requests) < MaxRequests
  /\ \E id \in WeekIds :
        server' = deleteWeek(server, [route |-> "deleteWeek", id |-> id])
  /\ UNCHANGED <<pc, args, ret, error, callerData, page>>

ReceiveAddCorrection ==
  /\ pc = "store"
  /\ Len(server.requests) < MaxRequests
  /\ \E id \in WeekIds :
        server' = addCorrection(server, [route |-> "addCorrection", id |-> id,
                                         body |-> ManualData(1, "")])
  /\ UNCHANGED <<pc, args, ret, error, callerData, page>>

ReceiveUpdateCorrection ==
  /\ pc = "store"
  /\ Len(server.requests) < MaxRequests
  /\ \E id \in {StoredWeekId, OldWeekId}, correctionId \in {2} :
        server' = updateCorrection(server,
                     [route |-> "updateCorrection", id |-> id,
                      correctionId |-> correctionId, body |-> ManualData(2, "changed")])
  /\ UNCHANGED <<pc, args, ret, error, callerData, page>>

ReceiveDeleteCorrection ==
  /\ pc = "store"
  /\ Len(server.requests) < MaxRequests
  /\ \E id \in {StoredWeekId, OldWeekId}, correctionId \in {2} :
        server' = deleteCorrection(server,
                     [route |-> "deleteCorrection", id |-> id,
                      correctionId |-> correctionId])
  /\ UNCHANGED <<pc, args, ret, error, callerData, page>>

ReceiveGetWeek ==
  /\ pc = "store"
  /\ Len(server.requests) < MaxRequests
  /\ \E id \in {StoredWeekId, NoWeekId} :
        server' = getWeek(server, [route |-> "getWeek", id |-> id])
  /\ UNCHANGED <<pc, args, ret, error, callerData, page>>

RunCleanup ==
  /\ pc = "store"
  /\ Len(server.requests) < MaxRequests
  /\ server' = cleanupOldData(server, [route |-> "cleanup"])
  /\ UNCHANGED <<pc, args, ret, error, callerData, page>>

NextStore ==
  \/ ReceivePostWeeks
  \/ ReceiveCsvUpload
  \/ ReceiveDeleteWeek
  \/ ReceiveAddCorrection
  \/ ReceiveUpdateCorrection
  \/ ReceiveDeleteCorrection
  \/ ReceiveGetWeek
  \/ RunCleanup
  \/ ExecuteStatement

SpecStore == InitStore /\ [][NextStore]_vars

-----------------------------------------------------------------------------
(* The data service of the dashboard: saveWeekData, getWeekData and        *)
(* updateManualCorrections.  Each awaits the answer of a request before it *)
(* goes on.  ret holds the position of the running call, the request it    *)
(* awaits (0 when none), the corrections still to be deleted or added, the *)
(* week id saveWeekData returned and the week getWeekData returned.        *)

MaxOthers == 1    \* requests of another user while the call runs

\* the answer to request req as axios delivers it
Answer(current, req) == [status |-> current.responses[req], data |-> current.bodies[req]]

\* axios rejects the promise of an answer whose status is not 2xx
Rejected(answer) == answer.status \notin {"200", "201"}

Thrown == [t |-> "thrown"]

\* getWeekData: null for status 404 and for a body without id, the body
\* otherwise; any other rejection is thrown
getWeekData(answer) ==
  IF Rejected(answer)
  THEN IF answer.status = "404" THEN null ELSE Thrown
  ELSE IF answer.data = NoRow \/ answer.data.id = "" THEN null ELSE answer.data

\* saveWeekData: the id of the answer; a rejection or an answer without id
\* is thrown
saveWeekData(answer) ==
  IF Rejected(answer) \/ answer.data = NoRow \/ answer.data.id = ""
  THEN Thrown ELSE Str(answer.data.id)

\* if (week && week.manualCorrections): the corrections to be deleted
correctionsToDelete(week) ==
  IF week # null THEN week.manualCorrections ELSE <<>>

StartedCall ==
  [at |-> "start", awaiting |-> 0, remaining |-> <<>>, id |-> Str(""), week |-> undefined]

\* the position after a loop step: when the corrections to delete are
\* exhausted the additions begin, when those are exhausted the call returns
proceed(state, list) ==
  IF state.at = "delete" /\ state.remaining = <<>>
  THEN IF list = <<>> THEN [state EXCEPT !.at = "returned"]
       ELSE [state EXCEPT !.at = "add", !.remaining = list]
  ELSE IF state.at = "add" /\ state.remaining = <<>>
       THEN [state EXCEPT !.at = "returned"]
       ELSE state

\* updateManualCorrections resumes with the answer it awaited
updateManualCorrections(state, list, answer) ==
  CASE state.at = "getWeekData" ->
         IF getWeekData(answer) = Thrown THEN [state EXCEPT !.at = "thrown", !.awaiting = 0]
         ELSE proceed([state EXCEPT !.at = "delete", !.awaiting = 0,
                                    !.week = getWeekData(answer),
                                    !.remaining = correctionsToDelete(getWeekData(answer))],
                      list)
    [] state.at \in {"delete", "add"} ->
         IF Rejected(answer) THEN [state EXCEPT !.at = "thrown", !.awaiting = 0]
         ELSE proceed([state EXCEPT !.awaiting = 0, !.remaining = Tail(@)], list)

\* the request updateManualCorrections sends at its position
UpdateRequest(state, weekId) ==
  CASE state.at = "start" -> [route |-> "getWeek", id |-> weekId]
    [] state.at = "delete" ->
         [route |-> "deleteCorrection", id |-> weekId,
          correctionId |-> Get(Head(state.remaining), "id").n]
    [] state.at = "add" ->
         [route |-> "addCorrection", id |-> weekId, body |-> Head(state.remaining)]

\* the handler of the route of the request
handle(current, request) ==
  CASE request.route = "getWeek" -> getWeek(current, request)
    [] request.route = "deleteCorrection" -> deleteCorrection(current, request)
    [] request.route = "addCorrection" -> addCorrection(current, request)
    [] request.route = "weeks" -> receive(current, request)

NewDates == [startDate |-> Str("2024-02-01"), endDate |-> Str("2024-02-07")]

\* a record as parseCSVData delivers it, and one whose value correctOutliers
\* replaced by NaN
TypedItem(Time, value) == <<[k |-> "Time", v |-> Str(Time)], [k |-> "PH_58", v |-> value]>>

ClientRecords ==
  {<<>>,
   <<TypedItem("01/02/2024 00:00", IntNum(7)), TypedItem("01/02/2024 00:30", IntNum(8))>>,
   <<TypedItem("01/02/2024 00:30", IntNum(8)), TypedItem("01/02/2024 00:00", NaN)>>}

ClientCorrections ==
  {<<>>, <<ManualData(1, "a")>>, <<ManualData(1, "a"), ManualData(1, "a")>>,
   <<ManualData(0, ""), ManualData(4, "b")>>}

ClientCalls ==
  {[fn |-> "updateManualCorrections", weekId |-> weekId, manualCorrections |-> list] :
      weekId \in WeekIds, list \in ClientCorrections}
  \cup
  {[fn |-> "saveWeekData", startDate |-> NewDates.startDate, endDate |-> NewDates.endDate,
    dataType |-> Str("both"), iotData |-> records, manualCorrections |-> list] :
      records \in ClientRecords, list \in ClientCorrections}

\* saves of another user: of the old week, which is stored already, and of a
\* week not stored
OtherSaves ==
  {[route |-> "weeks", startDate |-> dates.startDate, endDate |-> dates.endDate,
    dataType |-> Str("both"), iotData |-> <<WeekItem("01/01/2023 00:00")>>,
    manualCorrections |-> <<>>, other |-> TRUE] :
      dates \in {OldDates, [startDate |-> Str("2023-02-01"), endDate |-> Str("2023-02-07")]}}

OtherRequests(current) ==
  {req \in 1..Len(current.requests) : "other" \in DOMAIN current.requests[req]}

InitClient ==
  /\ pc = "client"
  /\ args \in ClientCalls
  /\ ret = StartedCall
  /\ error = "none"
  /\ callerData = undefined
  /\ page = MountedPage
  /\ server = PopulatedServer

\* updateManualCorrections sends its next request and awaits the answer
UpdateManualCorrectionsSends ==
  /\ pc = "client"
  /\ args.fn = "updateManualCorrections"
  /\ ret.at \in {"start", "delete", "add"}
  /\ ret.awaiting = 0
  /\ server' = handle(server, UpdateRequest(ret, args.weekId))
  /\ ret' = [ret EXCEPT !.awaiting = Len(server.requests) + 1,
                        !.at = IF @ = "start" THEN "getWeekData" ELSE @]
  /\ UNCHANGED <<pc, args, error, callerData, page>>

\* the awaited answer has arrived
UpdateManualCorrectionsResumes ==
  /\ pc = "client"
  /\ args.fn = "updateManualCorrections"
  /\ ret.awaiting # 0
  /\ server.responses[ret.awaiting] # "pending"
  /\ ret' = updateManualCorrections(ret, args.manualCorrections, Answer(server, ret.awaiting))
  /\ error' = IF ret'.at = "thrown" THEN "Error" ELSE error
  /\ UNCHANGED <<pc, args, callerData, page, server>>

\* saveWeekData posts the week
SaveWeekDataSends ==
  /\ pc = "client"
  /\ args.fn = "saveWeekData"
  /\ ret.at = "start"
  /\ server' = handle(server, [route |-> "weeks", startDate |-> args.startDate,
                               endDate |-> args.endDate, dataType |-> args.dataType,
                               iotData |-> args.iotData,
                               manualCorrections |-> args.manualCorrections])
  /\ ret' = [ret EXCEPT !.at = "saveWeekData", !.awaiting = Len(server.requests) + 1]
  /\ UNCHANGED <<pc, args, error, callerData, page>>

SaveWeekDataResumes ==
  /\ pc = "client"
  /\ ret.at = "saveWeekData"
  /\ server.responses[ret.awaiting] # "pending"
  /\ IF saveWeekData(Answer(server, ret.awaiting)) = Thrown
     THEN ret' = [ret EXCEPT !.at = "thrown", !.awaiting = 0] /\ error' = "Error"
     ELSE /\ ret' = [ret EXCEPT !.at = "saved", !.awaiting = 0,
                                !.id = saveWeekData(Answer(server, ret.awaiting))]
          /\ error' = error
  /\ UNCHANGED <<pc, args, callerData, page, server>>

\* the week saved is loaded with the id saveWeekData returned
GetWeekDataSends ==
  /\ pc = "client"
  /\ ret.at = "saved"
  /\ server' = handle(server, [route |-> "getWeek", id |-> ret.id.s])
  /\ ret' = [ret EXCEPT !.at = "getWeekData", !.awaiting = Len(server.requests) + 1]
  /\ UNCHANGED <<pc, args, error, callerData, page>>

GetWeekDataResumes ==
  /\ pc = "client"
  /\ args.fn = "saveWeekData"
  /\ ret.at = "getWeekData"
  /\ server.responses[ret.awaiting] # "pending"
  /\ IF getWeekData(Answer(server, ret.awaiting)) = Thrown
     THEN ret' = [ret EXCEPT !.at = "thrown", !.awaiting = 0] /\ error' = "Error"
     ELSE /\ ret' = [ret EXCEPT !.at = "loaded", !.awaiting = 0,
                                !.week = getWeekData(Answer(server, ret.awaiting))]
          /\ error' = error
  /\ UNCHANGED <<pc, args, callerData, page, server>>

\* another user saves a week other than the one the call is about
OtherUserSavesWeek ==
  /\ pc = "client"
  /\ Cardinality(OtherRequests(server)) < MaxOthers
  /\ \E request \in OtherSaves : server' = receive(server, request)
  /\ UNCHANGED <<pc, args, ret, error, callerData, page>>

NextClient ==
  \/ UpdateManualCorrectionsSends
  \/ UpdateManualCorrectionsResumes
  \/ SaveWeekDataSends
  \/ SaveWeekDataResumes
  \/ GetWeekDataSends
  \/ GetWeekDataResumes
  \/ OtherUserSavesWeek
  \/ ExecuteStatement

SpecClient == InitClient /\ [][NextClient]_vars

-----------------------------------------------------------------------------
(* Properties of the week saves.                                           *)

\* every request received has been answered and no statement is waiting
Quiescent ==
  /\ pc = "server"
  /\ Len(server.requests) > 0
  /\ server.queue = <<>>
  /\ \A req \in 1..Len(server.responses) : server.responses[req] # "pending"

\* the rows of the three tables that request req inserted
StoredWeeks(req) == {row \in server.tables.weeks : row.req = req}
StoredIot(req) == {row \in server.tables.iot_data : row.req = req}
StoredCorrections(req) == {row \in server.tables.manual_corrections : row.req = req}

\* the week row of req and all of its record and correction rows are stored
StoredWhole(req) ==
  LET request == server.requests[req]
  IN /\ Cardinality(StoredWeeks(req)) = 1
     /\ Cardinality(StoredIot(req)) = Len(IotItems(request))
     /\ Cardinality(StoredCorrections(req)) = Len(request.manualCorrections)

\* no row of req is stored
StoredNothing(req) ==
  StoredWeeks(req) \cup StoredIot(req) \cup StoredCorrections(req) = {}

\* C20: when all requests are answered and all statements executed, each
\* request either has its week row and all of its record and correction
\* rows stored and was answered 201, or has no row stored and was answered
\* with an error.
C20_AllOrNothing ==
  Quiescent =>
    \A req \in 1..Len(server.requests) :
      \/ server.responses[req] = "201" /\ StoredWhole(req)
      \/ server.responses[req] \in {"400", "500"} /\ StoredNothing(req)

-----------------------------------------------------------------------------
(* Properties of parseCSVFile.                                             *)

\* the cells of a line
CellsOf(line) == Split(line, ",")

\* C21: for a file of five metadata lines, the column-name line and k data
\* lines, parseCSVFile resolves with exactly k data rows, row i holding the
\* cells of data line i under the column names, and headerInfo holds the
\* value of each of the five metadata lines under its key.
C21_MetadataColumnsRows ==
  Returned("parseCSVFile")
  => LET rows == SelectSeq(args.rows, LAMBDA l : l # "")
         columns == CellsOf(args.lines[6])
     IN /\ Len(ret.data) = Len(rows)
        /\ \A i \in 1..Len(rows) :
             i <= Len(ret.data)
             => \A j \in 1..Len(columns) :
                  Get(ret.data[i], columns[j]) = Str(CellsOf(rows[i])[j])
        /\ \A m \in 1..5 :
             Get(ret.headerInfo, CellsOf(args.lines[m])[1]) = Str(CellsOf(args.lines[m])[2])

-----------------------------------------------------------------------------
(* Properties of the stored weeks.                                         *)

\* C22: every week row stored, by whichever route, has the id
\* week_<start>_to_<end> built from its start and end date with every '/'
\* replaced by '-'.
C22_StoredWeekId ==
  pc = "server"
  => \A week \in server.tables.weeks :
       week.id = generateWeekId(week.start_date.s, week.end_date.s)

-----------------------------------------------------------------------------
(* Weekly aggregates against the daily buckets.                            *)

\* the sum, over all daily buckets of the result, of the bucket's field
\* read as a number
SumOfDaily(result, field) ==
  SumOver(1..Len(result.dailyAggregates),
          [b \in 1..Len(result.dailyAggregates) |-> ToNumber(result.dailyAggregates[b].v[field])])

\* C23: the weekly dataPoints, totalFlowARA, totalFlowGalgenkanal and
\* pumpDuration are, as numbers, the sums over the daily buckets of
\* dataPoints, flowARA, flowGalgenkanal and pumpDuration, and the daily
\* dataPoints add up to the number of records.
C23_WeeklyIsSumOfDaily ==
  Returned("calculateAggregates")
  => /\ ToNumber(ret.weeklyAggregates.dataPoints) = SumOfDaily(ret, "dataPoints")
     /\ ToNumber(ret.weeklyAggregates.totalFlowARA) = SumOfDaily(ret, "flowARA")
     /\ ToNumber(ret.weeklyAggregates.totalFlowGalgenkanal) = SumOfDaily(ret, "flowGalgenkanal")
     /\ ToNumber(ret.weeklyAggregates.pumpDuration) = SumOfDaily(ret, "pumpDuration")
     /\ SumOfDaily(ret, "dataPoints") = IntNum(Len(args.data))

-----------------------------------------------------------------------------
(* filterByTimeRange without a complete range.                             *)

\* the bound is not given: undefined or the empty text
BoundMissing(bound) == bound = undefined \/ bound = Str("")

\* C24: in the mode week, and in the mode custom when the start or the end
\* is missing, filterByTimeRange returns the records handed in, in their
\* order.
C24_IncompleteRangeKeepsAll ==
  (pc = "done" /\ args.fn = "filterByTimeRange"
     /\ \/ args.timeRange = "week"
        \/ /\ args.timeRange = "custom"
           /\ BoundMissing(args.customStartDate) \/ BoundMissing(args.customEndDate))
  => error = "none" /\ ret = args.data /\ callerData = args.data

\* a custom range with a start and no end, over records of two dates that a
\* complete range from that start would not all keep
C24_Witness ==
  /\ Returned("filterByTimeRange")
  /\ args.timeRange = "custom"
  /\ args.customStartDate = Str("2024-01-03")
  /\ args.customEndDate = Str("")
  /\ Len(args.data) = 2
  /\ Get(args.data[1], "Time") = Str("31/12/2023 23:30")
  /\ Get(args.data[2], "Time") = Str("02/01/2024 00:00")
  /\ ret = args.data

-----------------------------------------------------------------------------
(* The correction of the detected outliers.                                *)

\* the value lies within [Q1 - 1.5 IQR, Q3 + 1.5 IQR] of the data, the
\* quartiles taken as in C5
WithinFence(value, data, field) ==
  LET sorted == ValuesOf(data, field, NumericPositions(data, field))
      n == Len(sorted)
      Q1 == sorted[(n \div 4) + 1]
      Q3 == sorted[((3 * n) \div 4) + 1]
      IQR == SubNum(Q3, Q1)
  IN /\ IsNumeric(value)
     /\ ~LessNum(ToNumber(value), SubNum(Q1, TimesOneAndAHalf(IQR)))
     /\ ~LessNum(AddNum(Q3, TimesOneAndAHalf(IQR)), ToNumber(value))

\* every record of the data has a number for the field
AllNumbers(data, field) == \A i \in 1..Len(data) : IsNumber(Get(data[i], field))

\* C25: when every record has a number for the field, the correction of
\* the detected indices ends normally, gives every flagged record a value
\* other than the one it had, and leaves every value of the field within
\* the fence of the detection.
C25_CorrectedWithinFence ==
  (pc = "corrected" /\ AllNumbers(args.data, args.field))
  => /\ error = "none"
     /\ Len(ret.correctedData) = Len(args.data)
     /\ \A p \in 1..Len(ret.outlierIndices) :
          Get(At(ret.correctedData, ret.outlierIndices[p]), args.field)
            # Get(At(args.data, ret.outlierIndices[p]), args.field)
     /\ \A i \in 1..Len(ret.correctedData) :
          WithinFence(Get(ret.correctedData[i], args.field), args.data, args.field)

\* [10, -5, 999, 10, 10]: the two flagged neighbours both receive 10, the
\* mean of the nearest unflagged values on either side
C25_Witness ==
  /\ pc = "corrected"
  /\ error = "none"
  /\ Len(args.data) = 5
  /\ AllNumbers(args.data, args.field)
  /\ ret.outlierIndices = <<1, 2>>
  /\ Get(args.data[2], args.field) = IntNum(-5)
  /\ Get(args.data[3], args.field) = IntNum(999)
  /\ Get(ret.correctedData[2], args.field) = IntNum(10)
  /\ Get(ret.correctedData[3], args.field) = IntNum(10)

-----------------------------------------------------------------------------
(* correctOutliers and the order of the index list.                        *)

\* the flagged indices, each once, in ascending order
FlaggedAscending(outlierIndices) == Ascending(Range(outlierIndices))

\* C26: a call of correctOutliers ends as the call with the same indices
\* listed once each in ascending order ends: with the same corrected
\* sequence, or with an error when that call ends with an error.
C26_OnlyTheSetOfIndices ==
  (pc = "done" /\ args.fn = "correctOutliers")
  => IF CorrectThrows(args.data, FlaggedAscending(args.outlierIndices))
     THEN error # "none"
     ELSE /\ error = "none"
          /\ ret = correctOutliers(args.data, args.field, FlaggedAscending(args.outlierIndices))

\* [10, 999, 20] with the list [1, 0]: two neighbouring indices in
\* descending order, both corrected from the record at index 2
C26_Witness ==
  /\ Returned("correctOutliers")
  /\ Len(args.data) = 3
  /\ args.outlierIndices = <<1, 0>>
  /\ Get(args.data[1], "PH_58") = IntNum(10)
  /\ Get(args.data[2], "PH_58") = IntNum(999)
  /\ Get(args.data[3], "PH_58") = IntNum(20)
  /\ Get(ret[1], "PH_58") = IntNum(20)
  /\ Get(ret[2], "PH_58") = IntNum(20)

-----------------------------------------------------------------------------
(* The filtered records of the setup page.                                 *)

\* no handler is running and the filter effect has run for the last render
PageQuiescent == pc = "page" /\ ~page.effectPending

\* C28: whenever the page is quiescent, processedData is what
\* filterByTimeRange returns for the current rawData, timeRange and custom
\* dates (on the host the page runs on).
C28_ProcessedIsFiltered ==
  PageQuiescent
  => \E env \in Envs :
       page.processedData
         = filterByTimeRange(page.rawData, page.timeRange,
                             page.customStartDate, page.customEndDate, env)

\* after an upload and a correction, the custom range of the first day
\* keeps two of the four records
C28_Witness ==
  /\ PageQuiescent
  /\ page.rawData \notin UploadedSets
  /\ page.timeRange = "custom"
  /\ page.customStartDate = Str("2024-01-01")
  /\ page.customEndDate = Str("2024-01-01")
  /\ Len(page.rawData) = 4
  /\ Len(page.processedData) = 2
-----------------------------------------------------------------------------
(* Properties of the store under concurrent requests.                      *)

\* every request of the store has been answered and no statement is waiting
StoreQuiescent ==
  /\ pc = "store"
  /\ server.queue = <<>>
  /\ \A req \in 1..Len(server.responses) : server.responses[req] # "pending"

WeekStored(weekId) == \E week \in server.tables.weeks : week.id = weekId

\* C27: whatever the interleaving of week creation, week deletion,
\* correction add, update and delete and the cleanup, once every statement
\* has been executed every iot_data row and every manual_corrections row
\* references a week that exists in the weeks table.
C27_RowsReferenceStoredWeeks ==
  StoreQuiescent =>
    /\ \A row \in server.tables.iot_data : WeekStored(row.week_id)
    /\ \A row \in server.tables.manual_corrections : WeekStored(row.week_id)

-----------------------------------------------------------------------------
(* Properties of the data service.                                         *)

\* the columns of the corrections stored for the week, in the order of
\* their ids
StoredColumnsOf(weekId) ==
  LET rows == RowsById({row \in server.tables.manual_corrections : row.week_id = weekId})
  IN [i \in 1..Len(rows) |->
        <<rows[i].pump_duration, rows[i].total_flow_ara,
          rows[i].total_flow_galgenkanal, rows[i].notes>>]

\* the values of the entries of a list of ManualData
EntryColumns(list) ==
  [i \in 1..Len(list) |->
     <<Get(list[i], "pumpDuration"), Get(list[i], "totalFlowARA"),
       Get(list[i], "totalFlowGalgenkanal"), Get(list[i], "notes")>>]

\* the corrections of the weeks other than weekId
CorrectionsOfOthers(tables, weekId) ==
  {row \in tables.manual_corrections : row.week_id # weekId}

\* updateManualCorrections has returned without error, every request has
\* been answered and every statement executed
UpdateCompleted ==
  /\ pc = "client"
  /\ args.fn = "updateManualCorrections"
  /\ ret.at = "returned"
  /\ server.queue = <<>>
  /\ \A req \in 1..Len(server.responses) : server.responses[req] # "pending"

\* no request of another user is about the week
NoOtherWriterOf(weekId) ==
  \A req \in OtherRequests(server) : WeekIdOf(server.requests[req]) # weekId

\* C29: after updateManualCorrections(weekId, list) has completed without
\* error, with no other writer for that week, the corrections stored for
\* weekId are the entries of list, one per entry, and the corrections of
\* every other week are as they were.
C29_StoredAreTheList ==
  (UpdateCompleted /\ NoOtherWriterOf(args.weekId))
  => /\ StoredColumnsOf(args.weekId) = EntryColumns(args.manualCorrections)
     /\ CorrectionsOfOthers(server.tables, args.weekId)
          = CorrectionsOfOthers(PopulatedTables, args.weekId)

\* saveWeekData returned the id of the week and getWeekData then returned
\* the week, the two requests of the call being the only ones
SavedAndLoaded ==
  /\ pc = "client"
  /\ args.fn = "saveWeekData"
  /\ ret.at = "loaded"
  /\ ret.week # null
  /\ OtherRequests(server) = {}

ManualDataFields == {"pumpDuration", "totalFlowARA", "totalFlowGalgenkanal", "notes"}

\* C30: a week saved with records R and manual corrections M and loaded
\* with no write in between comes back with iotData equal to R in the same
\* order and with one correction per entry of M holding the saved
\* pumpDuration, totalFlowARA, totalFlowGalgenkanal and notes under those
\* field names.
C30_SaveLoadRoundTrip ==
  SavedAndLoaded
  => /\ ret.week.iotData = args.iotData
     /\ Len(ret.week.manualCorrections) = Len(args.manualCorrections)
     /\ \A i \in 1..Len(args.manualCorrections) :
          i <= Len(ret.week.manualCorrections)
          => \A field \in ManualDataFields :
               Get(ret.week.manualCorrections[i], field) = Get(args.manualCorrections[i], field)
====
